---- MODULE Spec2Model ----
(***************************************************************************)
(* Verification model of the design-fairness core of des646-project:       *)
(*   design_assistant/audits/contrast.py       ContrastAuditor             *)
(*   design_assistant/audits/accessibility.py  AccessibilityAuditor        *)
(*   design_assistant/fusion.py                DesignFairnessScore         *)
(*   design_assistant/audits/dark_patterns.py  DarkPatternAuditor (score)  *)
(*   design_assistant/pipeline.py              DesignAssistant.run         *)
(*   design_assistant/collectors/selenium_collector.py  collect            *)
(*   app.py                      AuditHistoryManager, History page         *)
(*   tests/test_contrast.py      the synthetic panel                       *)
(*                                                                         *)
(* Python floats are IEEE-754 binary floating-point numbers: every         *)
(* arithmetic operation returns the exact result rounded to the nearest    *)
(* representable number, ties to even.  The model keeps that structure in  *)
(* a narrow format: a float is an integer count of units of 2^-FFrac      *)
(* whose significand has at most FPrec bits (binary64 has 53 bits and a    *)
(* smallest unit of 2^-1074).  Decimal literals of the source (0.05, 4.5,  *)
(* 0.8 ...) are rounded into the format exactly as the Python parser       *)
(* rounds them into binary64.                                              *)
(***************************************************************************)
EXTENDS Integers, Sequences, FiniteSets

\* ------------------------------------------------------------------ bounds
\* significand bits of the model's floating-point format
FPrec == 5
\* the smallest positive float (and smallest ulp) is 2^-FFrac
FFrac == 11
\* most contours one findContours call returns
MaxContours == 2
\* most violation records in an axe-core result
MaxAxeViolations == 8
\* largest baseline handed to AccessibilityAuditor.__init__
MaxBaseline == 6

\* An Optional value is a sequence of at most one element: None is the empty one.
None == <<>>
Some(v) == <<v>>
Val(o) == o[1]

\* ------------------------------------------------- floating-point arithmetic
RECURSIVE Pow2(_)
Pow2(k) == IF k <= 0 THEN 1 ELSE 2 * Pow2(k - 1)

\* 1.0 in units of 2^-FFrac
FOne == Pow2(FFrac)

Abs(i) == IF i < 0 THEN -i ELSE i

\* The spacing of the floats around a value whose integer part (in units) is s:
\* the least power of two u with s < 2^FPrec * u.
RECURSIVE UlpFrom(_, _)
UlpFrom(s, u) == IF s < Pow2(FPrec) * u THEN u ELSE UlpFrom(s, 2 * u)

Ulp(s) == UlpFrom(s, 1)

\* The float nearest to the non-negative rational p/q (p, q in units; q > 0),
\* ties to the even significand: IEEE-754 roundTiesToEven.
RoundNonNeg(p, q) ==
    LET u == Ulp(p \div q)
        d == q * u
        m == p \div d
        r == p % d
    IN  IF 2 * r > d \/ (2 * r = d /\ m % 2 = 1) THEN (m + 1) * u ELSE m * u

\* The float nearest to the rational p/q, q > 0, p of either sign.
Round(p, q) == IF p >= 0 THEN RoundNonNeg(p, q) ELSE -RoundNonNeg(-p, q)

\* The float a decimal literal num/den of the source denotes.
Fl(num, den) == Round(num * FOne, den)

\* float + float, float - float, float * float, float / float
FAdd(a, b) == Round(a + b, 1)
FSub(a, b) == Round(a - b, 1)
FMul(a, b) == Round(a * b, FOne)
FDiv(a, b) == IF b > 0 THEN Round(a * FOne, b) ELSE Round(-a * FOne, -b)

\* Python's int / int (true division): the exact quotient, rounded once.
IntTrueDiv(n, d) == IF d > 0 THEN Round(n * FOne, d) ELSE Round(-n * FOne, -d)

\* Python's max and min of two numbers
PyMax(a, b) == IF b > a THEN b ELSE a
PyMin(a, b) == IF b < a THEN b ELSE a

\* --------------------------------------------------------------- the state
VARIABLES
    accAuditor,     \* the AccessibilityAuditor, [baseline |-> int], once constructed
    accArg,         \* the baseline argument its constructor received
    accResults,     \* the raw axe results of the last audit_from_raw call
    accReport,      \* the AccessibilityReport that call returned
    accError,       \* the exception that call raised, "" when none
    fairness,       \* the DesignFairnessScore, once constructed
    fairValue,      \* what reading its value property returned
    fairError,      \* the exception reading it raised, "" when none
    fairScaled,     \* a second score, with both weights multiplied by k, and its value
    auditor,        \* the ContrastAuditor's configuration, once constructed
    pc,             \* where the auditor is: "new", "idle", "loop", "done", "raised"
    image,          \* the image the current audit call was given
    detected,       \* whether that call ran the OpenCV region detection
    nContours,      \* how many contours the detection returned
    visited,        \* history: what the loop did with each contour so far
    violations,     \* the local list `violations` of audit
    contrast_samples, \* the local list `contrast_samples` of audit
    report,         \* the ContrastReport the call returned
    error,          \* the exception the call raised, "" when none
    scene,          \* what OpenCV has found so far in the picture the image shows
    lastReport,     \* the report of the last audit of the picture that returned
    ratArgs,        \* a pair of luminances <<fg, bg>>
    ratOut,         \* the contrast ratio computed for <<fg, bg>>
    ratSwapped,     \* the contrast ratio computed for <<bg, fg>>
    lumPatch,       \* an RGB patch: a sequence of pixels <<R, G, B>>, each 0 .. 255
    lumOut,         \* what _relative_luminance returned for it, once called
    assistant,      \* the DesignAssistant: its alpha, beta and baseline, once constructed
    runArgs,        \* what the current DesignAssistant.run collected and audited
    runResult,      \* the PipelineResult that call returned
    ordArgs,        \* an auditor and the regions OpenCV finds in the picture, in order
    ordReport,      \* the report of an audit that processes them in that order
    ordOther,       \* another processing order, and the report of an audit in it
    panAuditor,     \* the ContrastAuditor of the panel test, once constructed
    panel,          \* the synthetic panel _make_panel returned
    panReport,      \* the ContrastReport of the audit of that panel
    dictArg,        \* a ContrastReport, with violations of the audit or of the language model
    dictOut,        \* what its to_dict returned, once called
    llmArgs,        \* the payload and the fallback of the last _llm_to_contrast_report call
    llmOut,         \* the ContrastReport that call returned
    selPc,          \* where collect is: idle, try, loaded, text, shot, finally, returned, raised
    selDriver,      \* the WebDriver of the current call: none, open or quit
    selPending,     \* the exception on its way out of collect, if any
    selCreated,     \* how many drivers driver_factory has created
    selQuits,       \* how many times driver.quit() was called
    selLocals,      \* the locals of the call: url, visible_text, axe_results
    selArtifacts,   \* the SeleniumArtifacts the call returned
    audit_history,  \* st.session_state.audit_history: the audit entries, newest first
    history_file,   \* the entries last written to data/audit_history.json
    confirm_delete, \* the confirm_delete_... keys of st.session_state that are True
    armed,          \* history: the delete buttons clicked for confirmation since their last deletion
    lastDeletion    \* history: the button of the last deletion and whether it was armed

accVars == <<accAuditor, accArg, accResults, accReport, accError>>

fairVars == <<fairness, fairValue, fairError, fairScaled>>

conVars == <<auditor, pc, image, detected, nContours, visited, violations,
            contrast_samples, report, error, scene, lastReport>>

ratVars == <<ratArgs, ratOut, ratSwapped>>

lumVars == <<lumPatch, lumOut>>

pipeVars == <<assistant, runArgs, runResult>>

ordVars == <<ordArgs, ordReport, ordOther>>

panVars == <<panAuditor, panel, panReport>>

dictVars == <<dictArg, dictOut>>

llmVars == <<llmArgs, llmOut>>

selVars == <<selPc, selDriver, selPending, selCreated, selQuits, selLocals,
            selArtifacts>>

histVars == <<audit_history, history_file, confirm_delete, armed, lastDeletion>>

oldVars == <<accVars, fairVars, conVars, ratVars, lumVars, pipeVars, ordVars>>

newVars == <<panVars, dictVars, llmVars, selVars, histVars>>

OtherThanPan == <<oldVars, dictVars, llmVars, selVars, histVars>>

OtherThanDict == <<oldVars, panVars, llmVars, selVars, histVars>>

OtherThanLlm == <<oldVars, panVars, dictVars, selVars, histVars>>

OtherThanSel == <<oldVars, panVars, dictVars, llmVars, histVars>>

OtherThanHist == <<oldVars, panVars, dictVars, llmVars, selVars>>

vars == <<oldVars, newVars>>

\* ------------------------------------------------------ AccessibilityAuditor
\* the default of the constructor's baseline parameter
DefaultBaseline == 25

\* the baselines a caller constructs the auditor with
BaselineArgs == (-2 .. MaxBaseline) \cup {DefaultBaseline}

\* The raw axe results handed to audit_from_raw: None, a dict without a
\* "violations" key, or a dict whose "violations" list holds n records.
AxeResults ==
    {None, Some([hasViolations |-> FALSE, violations |-> <<>>])}
        \cup {Some([hasViolations |-> TRUE, violations |-> [i \in 1 .. n |-> i]]) :
                n \in 0 .. MaxAxeViolations}

\* self.baseline = max(baseline, 1)
ClampBaselineUnclamped(baseline) == baseline

ClampBaseline(baseline) == PyMax(baseline, 1)

\* AccessibilityAuditor.__init__(baseline)
AccessibilityAuditorInit(baseline) ==
    /\ accAuditor' = Some([baseline |-> ClampBaseline(baseline)])
    /\ accArg' = Some(baseline)
    /\ accResults' = None
    /\ accReport' = None
    /\ accError' = ""
    /\ UNCHANGED <<fairVars, conVars, ratVars, lumVars, pipeVars, ordVars, newVars>>

\* violations_json = (results or {}).get("violations", []) if results else []
\* (None, an empty dict and a dict without the key all give the empty list)
ViolationsJson(results) ==
    IF results = None THEN <<>>
    ELSE IF Val(results).hasViolations THEN Val(results).violations ELSE <<>>

\* penalty = len(violations) / self.baseline; score = max(0.0, 1.0 - penalty)
AccessibilityScoreUncapped(n, baseline) == FSub(FOne, IntTrueDiv(n, baseline))

AccessibilityScore(n, baseline) ==
    PyMax(0, FSub(FOne, IntTrueDiv(n, baseline)))

\* AccessibilityAuditor.audit_from_raw(results)
AuditFromRaw(results) ==
    /\ accAuditor # None
    /\ accResults' = results
    /\ LET violations_json == ViolationsJson(results)
           axe_violations == [i \in 1 .. Len(violations_json) |->
                                [violation_id |-> violations_json[i]]]
           baseline == Val(accAuditor).baseline
       IN  IF baseline = 0
           THEN /\ accError' = "ZeroDivisionError"
                /\ accReport' = None
           ELSE /\ accError' = ""
                /\ accReport' =
                     Some([score |-> AccessibilityScore(Len(axe_violations), baseline),
                           violations |-> axe_violations,
                           raw_results |-> results])
    /\ UNCHANGED <<accAuditor, accArg>>
    /\ UNCHANGED <<fairVars, conVars, ratVars, lumVars, pipeVars, ordVars, newVars>>

InitAcc ==
    /\ accAuditor = None
    /\ accArg = None
    /\ accResults = None
    /\ accReport = None
    /\ accError = ""

NextAcc ==
    \/ \E b \in BaselineArgs : AccessibilityAuditorInit(b)
    \/ \E r \in AxeResults : AuditFromRaw(r)

\* ------------------------------------------------------- DesignFairnessScore
\* subsystem scores, each in [0, 1]
Scores == {0, Fl(1, 10), Fl(1, 2), Fl(4, 5), FOne}

\* the weights alpha and beta a caller supplies (0.5 is the default of both)
Weights == {0, Fl(1, 10), Fl(1, 2), Fl(7, 10), FOne, Fl(3, 1)}

\* DesignFairnessScore.from_components(accessibility_score, ethical_score, alpha, beta)
FromComponents(accessibility_score, ethical_score, alpha, beta) ==
    /\ fairness' = Some([accessibility_score |-> accessibility_score,
                         ethical_ux_score |-> ethical_score,
                         alpha |-> alpha,
                         beta |-> beta])
    /\ fairValue' = None
    /\ fairError' = ""
    /\ fairScaled' = None
    /\ UNCHANGED <<accVars, conVars, ratVars, lumVars, pipeVars, ordVars, newVars>>

\* (self.accessibility_score or 0.0): None and 0.0 are both falsy
OrZero(score) == IF score = None \/ score = Some(0) THEN 0 ELSE Val(score)

\* (self.alpha if self.accessibility_score is not None else 0.0) + self.beta
NormalizerCountingAlpha(f) == FAdd(f.alpha, f.beta)

NormalizerBetaOnly(f) == FAdd(0, f.beta)

NormalizerFalsyAbsent(f) ==
    FAdd(IF OrZero(f.accessibility_score) # 0 THEN f.alpha ELSE 0, f.beta)

Normalizer(f) ==
    FAdd(IF f.accessibility_score # None THEN f.alpha ELSE 0, f.beta)

\* if normalizer == 0: return 0.0
ZeroGuardMissing(normalizer) == FALSE

ZeroGuard(normalizer) == normalizer = 0

\* weighted_accessibility + weighted_ethics
WeightedSumUnweighted(f) ==
    FAdd(OrZero(f.accessibility_score), f.ethical_ux_score)

WeightedSum(f) ==
    FAdd(FMul(OrZero(f.accessibility_score), f.alpha),
         FMul(f.ethical_ux_score, f.beta))

\* What the value property of the score f returns: None stands for the
\* ZeroDivisionError of a division that the guard did not prevent.
ValueOf(f) ==
    LET normalizer == Normalizer(f)
    IN  IF ZeroGuard(normalizer) THEN Some(0)
        ELSE IF normalizer = 0 THEN None
        ELSE Some(FDiv(WeightedSum(f), normalizer))

\* DesignFairnessScore.value
Value ==
    /\ fairness # None
    /\ fairValue' = ValueOf(Val(fairness))
    /\ fairError' = IF ValueOf(Val(fairness)) = None THEN "ZeroDivisionError" ELSE ""
    /\ UNCHANGED <<fairness, fairScaled>>
    /\ UNCHANGED <<accVars, conVars, ratVars, lumVars, pipeVars, ordVars, newVars>>

\* the factors a caller multiplies both weights by
Factors == {Fl(1, 2), Fl(2, 1), Fl(3, 1)}

\* DesignFairnessScore(accessibility_score, ethical_ux_score, k * alpha, k * beta).value
\* for the scores and weights of the current one
ScaledWeights(f, k) ==
    [f EXCEPT !.alpha = FMul(k, f.alpha), !.beta = FMul(k, f.beta)]

ValueScaled(k) ==
    /\ fairness # None
    /\ fairValue # None
    /\ fairScaled = None
    /\ fairScaled' = Some([k |-> k,
                           score |-> ScaledWeights(Val(fairness), k),
                           value |-> ValueOf(ScaledWeights(Val(fairness), k))])
    /\ UNCHANGED <<fairness, fairValue, fairError>>
    /\ UNCHANGED <<accVars, conVars, ratVars, lumVars, pipeVars, ordVars, newVars>>

InitFair ==
    /\ fairness = None
    /\ fairValue = None
    /\ fairError = ""
    /\ fairScaled = None

NextFusion ==
    \/ \E a \in {None} \cup {Some(x) : x \in Scores}, e \in Scores,
          al \in Weights, be \in Weights : FromComponents(a, e, al, be)
    \/ Value
    \/ \E k \in Factors : ValueScaled(k)

\* ----------------------------------------------------------- ContrastAuditor
\* the defaults of the constructor's parameters
DefaultContrastThreshold == Fl(9, 2)

\* The keyword arguments a caller constructs the auditor with, as
\* <<min_region_area, contrast_threshold, padding>>.  The images of the model
\* are a few pixels wide, so min_region_area and padding are scaled with them.
AuditorConfigs ==
    {<<6, DefaultContrastThreshold, 1>>, <<4, DefaultContrastThreshold, 0>>,
     <<4, FOne, 1>>, <<6, FOne, 0>>}

\* ContrastAuditor.__init__(min_region_area, contrast_threshold, padding)
ContrastAuditorInit(min_region_area, contrast_threshold, padding) ==
    /\ auditor' = Some([min_region_area |-> min_region_area,
                        contrast_threshold |-> contrast_threshold,
                        padding |-> padding])
    /\ pc' = "idle"
    /\ image' = None
    /\ detected' = FALSE
    /\ nContours' = 0
    /\ visited' = <<>>
    /\ violations' = <<>>
    /\ contrast_samples' = <<>>
    /\ report' = None
    /\ error' = ""
    /\ scene' = None
    /\ lastReport' = None
    /\ UNCHANGED <<accVars, fairVars, ratVars, lumVars, pipeVars, ordVars, newVars>>

\* The images handed to audit: None, or an array of height x width x 3.
Images ==
    {None} \cup {Some([height |-> d[1], width |-> d[2]]) :
                    d \in {<<0, 0>>, <<0, 8>>, <<6, 8>>}}

\* image.size
ImageSize(img) == Val(img).height * Val(img).width * 3

\* if image is None or image.size == 0
EmptyImageOnlyNone(img) == img = None

EmptyImage(img) == img = None \/ ImageSize(img) = 0

\* cv2.boundingRect of a contour of the mask: a box of at least one pixel
\* inside the image.
Boxes ==
    {[x |-> 0, y |-> 0, w |-> 2, h |-> 2],
     [x |-> 2, y |-> 1, w |-> 3, h |-> 2],
     [x |-> 0, y |-> 0, w |-> 8, h |-> 6]}

BoundingRects(img) ==
    {b \in Boxes : b.x + b.w <= Val(img).width /\ b.y + b.h <= Val(img).height}

\* the relative luminance of a patch's pixels, a mean of values in [0, 1]
Luminances == {0, Fl(1, 5), FOne}

Clip(i, n) == IF i < 0 THEN 0 ELSE IF i > n THEN n ELSE i

\* roi = image[y : y + h, x : x + w]; roi.size
RoiSize(img, b) ==
    (Clip(b.y + b.h, Val(img).height) - Clip(b.y, Val(img).height))
      * (Clip(b.x + b.w, Val(img).width) - Clip(b.x, Val(img).width)) * 3

\* _extract_background: the padded box clipped to the image; cv2.inpaint
\* returns an array of the crop's shape
BackgroundCrop(img, b, pad) ==
    [y1 |-> PyMax(b.y - pad, 0),
     y2 |-> PyMin(b.y + b.h + pad, Val(img).height),
     x1 |-> PyMax(b.x - pad, 0),
     x2 |-> PyMin(b.x + b.w + pad, Val(img).width)]

BackgroundSize(img, b, pad) ==
    LET c == BackgroundCrop(img, b, pad)
    IN  PyMax(c.y2 - c.y1, 0) * PyMax(c.x2 - c.x1, 0) * 3

\* image[y1:y2, x1:x2]: the pixels of the crop, as <<row, column>> of the image
CropPixels(img, b, pad) ==
    LET c == BackgroundCrop(img, b, pad)
    IN  (c.y1 .. c.y2 - 1) \X (c.x1 .. c.x2 - 1)

\* the pixels of the box (x, y, w, h) itself
RegionPixels(b) == (b.y .. b.y + b.h - 1) \X (b.x .. b.x + b.w - 1)

\* mask = np.ones(region.shape[:2]) * 255; mask[pad : pad + h, pad : pad + w] = 0
\* The mask has the crop's shape and is indexed from the crop's corner; the
\* slice assignment clips to the mask's shape.  The result maps each pixel of
\* the crop (in image coordinates) to its mask value.
InpaintMask(img, b, pad) ==
    LET c == BackgroundCrop(img, b, pad)
    IN  [px \in CropPixels(img, b, pad) |->
           IF /\ pad <= px[1] - c.y1 /\ px[1] - c.y1 < pad + b.h
              /\ pad <= px[2] - c.x1 /\ px[2] - c.x1 < pad + b.w
           THEN 0 ELSE 255]

\* cv2.inpaint(region, mask, 3, cv2.INPAINT_TELEA): the non-zero pixels of the
\* mask are the area that is reconstructed; the pixels where the mask is 0
\* are kept and are the source of the reconstruction.
Inpainted(img, b, pad) ==
    {px \in CropPixels(img, b, pad) : InpaintMask(img, b, pad)[px] # 0}

Kept(img, b, pad) ==
    {px \in CropPixels(img, b, pad) : InpaintMask(img, b, pad)[px] = 0}

\* The mean luminances the patch returned by _extract_background can have
\* when the region's own patch has mean fgMean: where the mask marks nothing
\* for reconstruction cv2.inpaint returns the crop as it is, and the crop is
\* then the region's own patch.
BackgroundLuminances(img, b, pad, fgMean) ==
    IF Inpainted(img, b, pad) = {} THEN {fgMean} ELSE Luminances

\* _relative_luminance of a patch of `size` values whose pixels average to
\* `mean`: None for an empty patch
RelativeLuminance(size, mean) == IF size = 0 THEN None ELSE Some(mean)

\* l1, l2 = max(fg, bg), min(fg, bg); contrast_ratio = (l1 + 0.05) / (l2 + 0.05)
ContrastRatioUnordered(fg_luminance, bg_luminance) ==
    FDiv(FAdd(fg_luminance, Fl(1, 20)), FAdd(bg_luminance, Fl(1, 20)))

ContrastRatio(fg_luminance, bg_luminance) ==
    LET l1 == PyMax(fg_luminance, bg_luminance)
        l2 == PyMin(fg_luminance, bg_luminance)
    IN  FDiv(FAdd(l1, Fl(1, 20)), FAdd(l2, Fl(1, 20)))

\* contrast_samples.append(contrast_ratio)
AppendSampleIfFlagged(samples, contrast_ratio, threshold) ==
    IF contrast_ratio < threshold THEN Append(samples, contrast_ratio) ELSE samples

AppendSample(samples, contrast_ratio, threshold) == Append(samples, contrast_ratio)

\* if contrast_ratio < self.contrast_threshold
BelowThresholdOrEqual(contrast_ratio, threshold) == contrast_ratio <= threshold

BelowThresholdNever(contrast_ratio, threshold) == FALSE

BelowThreshold(contrast_ratio, threshold) == contrast_ratio < threshold

\* np.mean of a list of floats: the sum, added up left to right in binary64,
\* divided by the count
RECURSIVE NpSum(_)
NpSum(s) == IF s = <<>> THEN 0 ELSE FAdd(NpSum(SubSeq(s, 1, Len(s) - 1)), s[Len(s)])

NpMeanOfLast(s) == s[Len(s)]

NpMean(s) == FDiv(NpSum(s), Len(s) * FOne)

\* float(np.mean(contrast_samples)) if contrast_samples else 0.0
AverageContrastPerfectWhenEmpty(samples) ==
    IF samples # <<>> THEN NpMean(samples) ELSE Fl(21, 1)

AverageContrast(samples) == IF samples # <<>> THEN NpMean(samples) ELSE 0

\* violations = []; contrast_samples = []: the lists are locals of audit,
\* created empty on every call whatever an earlier call left in its own
NewListRetained(earlier) == earlier

NewList(earlier) == <<>>

\* ContrastAuditor.audit(image), from its entry to the start of the loop: the
\* empty-image check, then the OpenCV region detection, which returns some
\* number of contours.  The non-empty image of the model is one picture: what
\* OpenCV finds in it is not known before an audit looks, and is the same
\* every time after (scene).
AuditEnter(img) ==
    /\ auditor # None
    /\ pc \in {"idle", "done", "raised"}
    /\ image' = img
    /\ visited' = <<>>
    /\ violations' = NewList(violations)
    /\ contrast_samples' = NewList(contrast_samples)
    /\ report' = None
    /\ lastReport' = IF pc = "done" THEN report ELSE lastReport
    /\ IF EmptyImage(img)
       THEN /\ pc' = "raised"
            /\ error' = "ValueError"
            /\ detected' = FALSE
            /\ nContours' = 0
            /\ UNCHANGED scene
       ELSE /\ pc' = "loop"
            /\ error' = ""
            /\ detected' = TRUE
            /\ IF scene = None
               THEN /\ nContours' \in 0 .. MaxContours
                    /\ scene' = Some([contours |-> nContours', found |-> <<>>])
               ELSE /\ nContours' = Val(scene).contours
                    /\ UNCHANGED scene
    /\ UNCHANGED <<auditor, accVars, fairVars, ratVars, lumVars, pipeVars, ordVars, newVars>>

\* if w * h < self.min_region_area: continue
TooSmallOrEqual(b, min_region_area) == b.w * b.h <= min_region_area

TooSmall(b, min_region_area) == b.w * b.h < min_region_area

\* What OpenCV and the pixels give for the contour the loop is at: its
\* bounding box and, when the box passes the filter, the mean luminances of
\* the region's patch and of the inpainted crop.  An audit that comes to a
\* contour of the picture for the first time finds any of the possible
\* values; a later audit finds the same again.
Found ==
    LET i == Len(visited) + 1
        cfg == Val(auditor)
    IN  IF i <= Len(Val(scene).found) THEN {Val(scene).found[i]}
        ELSE {[bbox |-> b, fg |-> None, bg |-> None] :
                b \in {r \in BoundingRects(image) : TooSmall(r, cfg.min_region_area)}}
             \cup
             UNION {{[bbox |-> x[1], fg |-> Some(x[2]), bg |-> Some(g)] :
                       g \in BackgroundLuminances(image, x[1], cfg.padding, x[2])} :
                    x \in {r \in BoundingRects(image) :
                             ~TooSmall(r, cfg.min_region_area)} \X Luminances}

\* The body of `for contour in contours` for a contour of which OpenCV and
\* the pixels give c (its box and patch luminances): the two lists after it,
\* and a record of what it did.
LoopBody(cfg, img, lists, c) ==
    LET b == c.bbox
        fg_luminance == RelativeLuminance(RoiSize(img, b), Val(c.fg))
        bg_luminance == RelativeLuminance(BackgroundSize(img, b, cfg.padding), Val(c.bg))
        skip(why) ==
            [violations |-> lists.violations,
             contrast_samples |-> lists.contrast_samples,
             visit |-> [bbox |-> b, outcome |-> why,
                        fg |-> None, bg |-> None, ratio |-> None]]
    IN  IF TooSmall(b, cfg.min_region_area)
        THEN skip("filtered")
        ELSE IF RoiSize(img, b) = 0 \/ BackgroundSize(img, b, cfg.padding) = 0
        THEN skip("empty patch")
        ELSE IF fg_luminance = None \/ bg_luminance = None
        THEN skip("no luminance")
        ELSE LET contrast_ratio == ContrastRatio(Val(fg_luminance), Val(bg_luminance))
             IN  [violations |->
                      IF BelowThreshold(contrast_ratio, cfg.contrast_threshold)
                      THEN Append(lists.violations,
                                  [bbox |-> Some(<<b.x, b.y, b.w, b.h>>),
                                   contrast_ratio |-> Some(contrast_ratio),
                                   description |-> None])
                      ELSE lists.violations,
                  contrast_samples |->
                      AppendSample(lists.contrast_samples, contrast_ratio,
                                   cfg.contrast_threshold),
                  visit |-> [bbox |-> b, outcome |-> "sampled",
                             fg |-> fg_luminance, bg |-> bg_luminance,
                             ratio |-> Some(contrast_ratio)]]

\* One pass of `for contour in contours`.
AuditContour ==
    /\ pc = "loop"
    /\ Len(visited) < nContours
    /\ \E c \in Found :
         LET after == LoopBody(Val(auditor), image,
                               [violations |-> violations,
                                contrast_samples |-> contrast_samples], c)
         IN  /\ scene' = IF Len(visited) < Len(Val(scene).found) THEN scene
                         ELSE Some([Val(scene) EXCEPT
                                      !.found = Append(Val(scene).found, c)])
             /\ violations' = after.violations
             /\ contrast_samples' = after.contrast_samples
             /\ visited' = Append(visited, after.visit)
    /\ UNCHANGED <<auditor, pc, image, detected, nContours, report, error, lastReport>>
    /\ UNCHANGED <<accVars, fairVars, ratVars, lumVars, pipeVars, ordVars, newVars>>

\* float(np.mean(contrast_samples)) if contrast_samples else 0.0, and the
\* ContrastReport built from it and the violations
ReportOf(lists) ==
    [average_contrast |-> AverageContrast(lists.contrast_samples),
     violations |-> lists.violations]

\* The end of audit: the average and the returned ContrastReport.
AuditReturn ==
    /\ pc = "loop"
    /\ Len(visited) = nContours
    /\ report' = Some(ReportOf([violations |-> violations,
                                contrast_samples |-> contrast_samples]))
    /\ pc' = "done"
    /\ UNCHANGED <<auditor, image, detected, nContours, visited, violations,
                   contrast_samples, error, scene, lastReport>>
    /\ UNCHANGED <<accVars, fairVars, ratVars, lumVars, pipeVars, ordVars, newVars>>

InitContrast ==
    /\ auditor = None
    /\ pc = "new"
    /\ image = None
    /\ detected = FALSE
    /\ nContours = 0
    /\ visited = <<>>
    /\ violations = <<>>
    /\ contrast_samples = <<>>
    /\ report = None
    /\ error = ""
    /\ scene = None
    /\ lastReport = None

NextContrast ==
    \/ \E c \in AuditorConfigs :
          /\ auditor = None
          /\ ContrastAuditorInit(c[1], c[2], c[3])
    \/ \E img \in Images : AuditEnter(img)
    \/ AuditContour
    \/ AuditReturn

\* ------------------------------------------- the contrast ratio on its own
\* every float of the format in [0, 1]
UnitFloats == {n \in 0 .. FOne : Round(n, 1) = n}

\* the ratio that audit computes for a region of the given luminances
MeasureRatio ==
    /\ ratOut = None
    /\ ratOut' = Some(ContrastRatio(ratArgs[1], ratArgs[2]))
    /\ UNCHANGED <<ratArgs, ratSwapped>>
    /\ UNCHANGED <<accVars, fairVars, conVars, lumVars, pipeVars, ordVars, newVars>>

\* the ratio it computes for a region with foreground and background swapped
MeasureSwapped ==
    /\ ratSwapped = None
    /\ ratSwapped' = Some(ContrastRatio(ratArgs[2], ratArgs[1]))
    /\ UNCHANGED <<ratArgs, ratOut>>
    /\ UNCHANGED <<accVars, fairVars, conVars, lumVars, pipeVars, ordVars, newVars>>

InitRatioIdle ==
    /\ ratArgs = <<0, 0>>
    /\ ratOut = None
    /\ ratSwapped = None

InitRatio ==
    /\ ratArgs \in UnitFloats \X UnitFloats
    /\ ratOut = None
    /\ ratSwapped = None

NextRatio == MeasureRatio \/ MeasureSwapped

\* ------------------------------------------- _relative_luminance on its own
\* most pixels in a patch handed to _relative_luminance
MaxPixels == 2

\* the 8-bit values a channel of a pixel takes
ChannelLevels == {0, 185, 255}

\* the patches of at most n pixels
RECURSIVE Patches(_)
Patches(n) ==
    IF n = 0 THEN {<<>>}
    ELSE LET shorter == Patches(n - 1)
         IN  shorter \cup
               {Append(p, px) : p \in {q \in shorter : Len(q) = n - 1},
                                px \in ChannelLevels \X ChannelLevels \X ChannelLevels}

\* rgb.astype("float32") / 255.0: an 8-bit value is exact in float32, the
\* quotient is rounded
Normalized(v) == Round(v * FOne, 255)

\* coefficients = np.array([0.2126, 0.7152, 0.0722], dtype="float32")
Coefficients == <<Fl(2126, 10000), Fl(7152, 10000), Fl(722, 10000)>>

\* normalized @ coefficients, for one pixel: three products added up
DotCoefficientsGreenOnly(px) == FMul(Normalized(px[2]), Coefficients[2])

DotCoefficients(px) ==
    FAdd(FAdd(FMul(Normalized(px[1]), Coefficients[1]),
              FMul(Normalized(px[2]), Coefficients[2])),
         FMul(Normalized(px[3]), Coefficients[3]))

\* _relative_luminance(rgb): None for an empty patch, else the mean of the
\* pixels' luminances
RelativeLuminanceOfPixels(rgb) ==
    IF Len(rgb) * 3 = 0 THEN None
    ELSE LET luminance == [i \in 1 .. Len(rgb) |-> DotCoefficients(rgb[i])]
         IN  IF Len(luminance) = 0 THEN None ELSE Some(NpMean(luminance))

MeasureLuminance ==
    /\ lumOut = None
    /\ lumOut' = Some(RelativeLuminanceOfPixels(lumPatch))
    /\ UNCHANGED lumPatch
    /\ UNCHANGED <<accVars, fairVars, conVars, ratVars, pipeVars, ordVars, newVars>>

InitLumIdle ==
    /\ lumPatch = <<>>
    /\ lumOut = None

InitLum ==
    /\ lumPatch \in Patches(MaxPixels)
    /\ lumOut = None

NextLuminance == MeasureLuminance

\* ------------------------------------------ audit as a function of the regions
\* most regions OpenCV finds in the picture of this part
MaxRegions == 3

\* The loop of audit over the contours in the order given: the two lists
\* after the last pass.
RECURSIVE AuditLists(_, _, _)
AuditLists(cfg, img, contours) ==
    IF contours = <<>> THEN [violations |-> <<>>, contrast_samples |-> <<>>]
    ELSE LET after == LoopBody(cfg, img,
                               AuditLists(cfg, img,
                                          SubSeq(contours, 1, Len(contours) - 1)),
                               contours[Len(contours)])
         IN  [violations |-> after.violations,
              contrast_samples |-> after.contrast_samples]

\* The ContrastReport audit returns for a non-empty image in which OpenCV
\* finds these contours.
AuditOf(cfg, img, contours) == ReportOf(AuditLists(cfg, img, contours))

\* the picture: 6 rows of 8 pixels
Picture == Some([height |-> 6, width |-> 8])

\* the auditors of this part: padding 1, min_region_area 6, and a threshold of
\* the default 4.5 or of 5.5
OrderAuditors ==
    {[min_region_area |-> 6, contrast_threshold |-> t, padding |-> 1] :
        t \in {DefaultContrastThreshold, Fl(11, 2)}}

\* What OpenCV and the pixels give for a region of the picture: a 2 x 2 box,
\* which the filter drops, or a 3 x 2 box whose patch and inpainted crop have
\* the mean luminances (0, 0), (0.5, 0.05) or (0, 1).
OrderRegions ==
    {[bbox |-> [x |-> 0, y |-> 0, w |-> 2, h |-> 2], fg |-> None, bg |-> None]}
    \cup {[bbox |-> [x |-> 2, y |-> 1, w |-> 3, h |-> 2],
           fg |-> Some(l[1]), bg |-> Some(l[2])] :
            l \in {<<0, 0>>, <<Fl(1, 2), Fl(1, 20)>>, <<0, FOne>>}}

\* the lists of at most n regions
RECURSIVE RegionLists(_)
RegionLists(n) ==
    IF n = 0 THEN {<<>>}
    ELSE LET shorter == RegionLists(n - 1)
         IN  shorter \cup {Append(s, r) : s \in {q \in shorter : Len(q) = n - 1},
                                          r \in OrderRegions}

\* the orders in which n regions can be processed
Orders(n) == {p \in [1 .. n -> 1 .. n] : \A i, j \in 1 .. n : p[i] = p[j] => i = j}

\* audit with the regions processed in the order findContours returns them
AuditInOrder ==
    /\ ordReport = None
    /\ ordReport' = Some(AuditOf(ordArgs.auditor, Picture, ordArgs.contours))
    /\ UNCHANGED <<ordArgs, ordOther>>
    /\ UNCHANGED <<accVars, fairVars, conVars, ratVars, lumVars, pipeVars, newVars>>

\* audit with the same regions processed in another order
AuditReordered(order) ==
    /\ ordOther = None
    /\ ordOther' =
         Some([order |-> order,
               report |-> AuditOf(ordArgs.auditor, Picture,
                                  [i \in 1 .. Len(ordArgs.contours) |->
                                     ordArgs.contours[order[i]]])])
    /\ UNCHANGED <<ordArgs, ordReport>>
    /\ UNCHANGED <<accVars, fairVars, conVars, ratVars, lumVars, pipeVars, newVars>>

InitOrderIdle ==
    /\ ordArgs = [auditor |-> [min_region_area |-> 6,
                               contrast_threshold |-> DefaultContrastThreshold,
                               padding |-> 1],
                  contours |-> <<>>]
    /\ ordReport = None
    /\ ordOther = None

InitOrder ==
    /\ ordArgs \in {[auditor |-> a, contours |-> c] :
                      a \in OrderAuditors, c \in RegionLists(MaxRegions)}
    /\ ordReport = None
    /\ ordOther = None

NextOrder ==
    \/ AuditInOrder
    \/ \E order \in Orders(Len(ordArgs.contours)) : AuditReordered(order)

\* ---------------------------------------------------------- DesignAssistant
\* most sentences _split_text finds in the page text
MaxSentences == 2

\* the alpha and beta a DesignAssistant is constructed with (0.5 by default)
AssistantWeights == {0, Fl(1, 2), Fl(3, 1)}

\* the baseline of its AccessibilityAuditor: the default one's, or that of an
\* auditor handed to the constructor
AssistantBaselines == {DefaultBaseline, 4}

\* DesignAssistant.__init__(accessibility_auditor=..., alpha=..., beta=...)
DesignAssistantInit(alpha, beta, baseline) ==
    /\ assistant' = Some([alpha |-> alpha, beta |-> beta, baseline |-> baseline])
    /\ runArgs' = None
    /\ runResult' = None
    /\ UNCHANGED <<accVars, fairVars, conVars, ratVars, lumVars, ordVars, newVars>>

\* The page text handed to DarkPatternAuditor.audit: blank, or a text that
\* _split_text cuts into `sentences` sentences of which `flags` are flagged
\* (a sentence gives at most one flag).
Texts ==
    {[blank |-> TRUE, sentences |-> 0, flags |-> 0]}
        \cup {[blank |-> FALSE, sentences |-> n, flags |-> k] :
                n \in 0 .. MaxSentences, k \in 0 .. MaxSentences}

\* DarkPatternAuditor.audit(text).score
\*   violation_ratio = len(flags) / max(len(sentences), 1)
\*   ethical_score = max(0.0, 1.0 - violation_ratio)
DarkPatternScore(text) ==
    IF text.blank THEN FOne
    ELSE PyMax(0, FSub(FOne, IntTrueDiv(text.flags, PyMax(text.sentences, 1))))

\* the numbers a language model puts in its JSON answer: nothing obliges them
\* to lie in [0, 1]
LlmNumbers == {Fl(-1, 2), Fl(1, 10), Fl(3, 2)}

\* severity_weights: none 0.0, low 0.25, medium 0.5, high 0.9
SeverityWeights == {Fl(9, 10)}

\* llm_analysis["dark_patterns"]: an optional overall_score and a list of
\* patterns, each with the weight of its severity and a confidence
LlmPayloads ==
    {[overall_score |-> o, patterns |-> ps] :
        o \in {None} \cup {Some(x) : x \in LlmNumbers},
        ps \in {<<>>} \cup {<<[severity_weight |-> w, confidence |-> c]>> :
                              w \in SeverityWeights, c \in LlmNumbers}}

\* weighted_sum += severity_weights.get(severity, 0.0) * confidence
RECURSIVE LlmWeightedSum(_)
LlmWeightedSum(patterns) ==
    IF patterns = <<>> THEN 0
    ELSE FAdd(LlmWeightedSum(SubSeq(patterns, 1, Len(patterns) - 1)),
              FMul(patterns[Len(patterns)].severity_weight,
                   patterns[Len(patterns)].confidence))

\* score = max(0.0, min(1.0, score))
ClampScoreMissing(score) == score

ClampScore(score) == PyMax(0, PyMin(FOne, score))

\* DesignAssistant._llm_to_dark_pattern_report(payload, fallback=...).score
LlmToDarkPatternScore(payload, fallback) ==
    LET count == Len(payload.patterns)
        score ==
            IF payload.overall_score # None THEN Val(payload.overall_score)
            ELSE IF count # 0
            THEN PyMax(0, FSub(FOne, FDiv(LlmWeightedSum(payload.patterns),
                                          count * FOne)))
            ELSE fallback
    IN  ClampScore(score)

\* What run collects: nothing but the image for a screenshot file; for a URL
\* the page text and the axe results, if axe ran (none, no violation, one, or
\* as many as the model allows).
Collected ==
    {[mode |-> "screenshot", axe_results |-> None,
      dom_text |-> [blank |-> TRUE, sentences |-> 0, flags |-> 0]]}
    \cup
    {[mode |-> "url", axe_results |-> r, dom_text |-> t] :
        r \in {x \in AxeResults :
                 Len(ViolationsJson(x)) \in {0, 1, MaxAxeViolations}},
        t \in {x \in Texts : x.flags <= x.sentences}}

\* The collaborators run calls to collect its input: the screenshot loader
\* for a screenshot file; for a URL the Selenium collector and, as the
\* collector returns no accessibility report of its own, the accessibility
\* auditor on the axe results if there are any.
CollectorCalls(c) ==
    IF c.mode = "url"
    THEN {"selenium_collector.collect"}
           \cup (IF c.axe_results # None
                 THEN {"accessibility_auditor.audit_from_raw"} ELSE {})
    ELSE {"screenshot_loader.load_from_path"}

\* accessibility_report.score of what run collected: None when there is no
\* report (a screenshot, or a URL without axe results)
AccessibilityOfAnyInput(c, baseline) ==
    Some(AccessibilityScore(IF c.axe_results # None
                            THEN Len(ViolationsJson(c.axe_results)) ELSE 0,
                            ClampBaseline(baseline)))

AccessibilityOf(c, baseline) ==
    IF c.mode = "url" /\ c.axe_results # None
    THEN Some(AccessibilityScore(Len(ViolationsJson(c.axe_results)),
                                 ClampBaseline(baseline)))
    ELSE None

\* DesignAssistant.run(mode, value), up to the heuristic audits: the
\* accessibility report of the URL's axe results (none for a screenshot or
\* without axe results) and the dark-pattern report of the page text.
RunCollect(c) ==
    /\ assistant # None
    /\ runArgs = None \/ runResult # None
    /\ runArgs' = Some([mode |-> c.mode,
                        calls |-> CollectorCalls(c),
                        accessibility |-> AccessibilityOf(c, Val(assistant).baseline),
                        dark_patterns |-> DarkPatternScore(c.dom_text)])
    /\ runResult' = None
    /\ UNCHANGED assistant
    /\ UNCHANGED <<accVars, fairVars, conVars, ratVars, lumVars, ordVars, newVars>>

\* DesignFairnessScore.from_components(
\*     accessibility_score=accessibility_report.score if accessibility_report else None,
\*     ethical_score=dark_pattern_report.score, alpha=self.alpha, beta=self.beta)
FromReportsZeroForNone(accessibility_report, dark_pattern_report, a) ==
    [accessibility_score |-> Some(OrZero(accessibility_report)),
     ethical_ux_score |-> dark_pattern_report,
     alpha |-> a.alpha,
     beta |-> a.beta]

FromReports(accessibility_report, dark_pattern_report, a) ==
    [accessibility_score |-> accessibility_report,
     ethical_ux_score |-> dark_pattern_report,
     alpha |-> a.alpha,
     beta |-> a.beta]

\* The rest of run: the dark-pattern report is replaced by the language
\* model's when its analysis has a "dark_patterns" part (llm), the fairness
\* score is built from the two scores, and the result is returned.  The
\* contrast report has no part in the fairness score.
RunReturn(llm) ==
    /\ runArgs # None
    /\ runResult = None
    /\ LET a == Val(assistant)
           ethical_score ==
               IF llm # None
               THEN LlmToDarkPatternScore(Val(llm), Val(runArgs).dark_patterns)
               ELSE Val(runArgs).dark_patterns
           fairness_score ==
               FromReports(Val(runArgs).accessibility, ethical_score, a)
       IN  runResult' = Some([accessibility |-> Val(runArgs).accessibility,
                              dark_patterns |-> ethical_score,
                              fairness |-> fairness_score,
                              value |-> ValueOf(fairness_score),
                              llm_analysis |-> llm])
    /\ UNCHANGED <<assistant, runArgs>>
    /\ UNCHANGED <<accVars, fairVars, conVars, ratVars, lumVars, ordVars, newVars>>

InitPipeline ==
    /\ assistant = None
    /\ runArgs = None
    /\ runResult = None

NextPipeline ==
    \/ \E alpha \in AssistantWeights, beta \in AssistantWeights,
          baseline \in AssistantBaselines :
          DesignAssistantInit(alpha, beta, baseline)
    \/ \E c \in Collected : RunCollect(c)
    \/ \E llm \in {None} \cup {Some(pl) : pl \in LlmPayloads} : RunReturn(llm)

\* ------------------------------------------------- the synthetic panel test
\* the defaults of the other two constructor parameters
DefaultMinRegionArea == 200

DefaultPadding == 4

\* The panel of the tests is 120 rows of 240 pixels; the model's panel has
\* the same proportions at a tenth of that size times a scale of at most
\* MaxPanelScale.
MaxPanelScale == 2

\* image = np.full((120, 240, 3), 200, dtype=np.uint8)
PanelBackground == 200

\* the foreground values a panel is made with (the tests use 185 and 0)
Foregrounds == {0, 50, 100, 150, 185, 200, 255}

\* _make_panel(foreground_value) at scale s
Panels ==
    {[scale |-> s, foreground |-> f] : s \in 1 .. MaxPanelScale, f \in Foregrounds}

PanelHeight(p) == 12 * p.scale

PanelWidth(p) == 24 * p.scale

\* cv2.rectangle(image, (40, 40), (200, 80), foreground, thickness=-1): the
\* filled rectangle, both corners included
InRectangle(p, r, c) ==
    /\ 4 * p.scale <= c /\ c <= 20 * p.scale
    /\ 4 * p.scale <= r /\ r <= 8 * p.scale

\* cv2.putText(image, "TEST", (60, 72), FONT_HERSHEY_SIMPLEX, 1.0, foreground, 2):
\* strokes inside the box that has its lower left corner at (60, 72) and is
\* at most 22 + 2 pixels high and 80 pixels wide, in the rectangle's colour
\* and inside the rectangle
InText(p, r, c) ==
    /\ 6 * p.scale <= c /\ c <= 14 * p.scale
    /\ 5 * p.scale <= r /\ r <= 8 * p.scale

\* the value of the three channels of the panel's pixel in row r, column c
PanelPixel(p, r, c) ==
    IF InRectangle(p, r, c) \/ InText(p, r, c) THEN p.foreground
    ELSE PanelBackground

\* gray = cv2.cvtColor(image, cv2.COLOR_BGR2GRAY): the common value of three
\* equal channels
Gray(p, r, c) == PanelPixel(p, r, c)

\* the border rule of the OpenCV filters (BORDER_REFLECT_101) for the index
\* i of an axis of n pixels
Reflect101(i, n) == IF i < 0 THEN -i ELSE IF i >= n THEN 2 * n - 2 - i ELSE i

\* the 5-tap kernel cv2.GaussianBlur uses for ksize (5, 5) and sigma 0, in
\* sixteenths
GaussianKernel == <<1, 4, 6, 4, 1>>

\* blur = cv2.GaussianBlur(normalized, (5, 5), 0): the kernel is applied
\* along the rows and then along the columns.  The values are in units of
\* 1 / (255 * 256): normalized = gray / 255, and the two passes each divide
\* by 16.
BlurAlongRow(p, r, c) ==
    LET v(i) == GaussianKernel[i] * Gray(p, r, Reflect101(c + i - 3, PanelWidth(p)))
    IN  v(1) + v(2) + v(3) + v(4) + v(5)

GaussianBlur(p, r, c) ==
    LET v(i) == GaussianKernel[i]
                  * BlurAlongRow(p, Reflect101(r + i - 3, PanelHeight(p)), c)
    IN  v(1) + v(2) + v(3) + v(4) + v(5)

\* gradients = cv2.Laplacian(blur, cv2.CV_32F): the sum of the four
\* neighbours minus four times the pixel, in the same units
Laplacian(p, r, c) ==
    GaussianBlur(p, Reflect101(r - 1, PanelHeight(p)), c)
      + GaussianBlur(p, Reflect101(r + 1, PanelHeight(p)), c)
      + GaussianBlur(p, r, Reflect101(c - 1, PanelWidth(p)))
      + GaussianBlur(p, r, Reflect101(c + 1, PanelWidth(p)))
      - 4 * GaussianBlur(p, r, c)

\* magnitude = cv2.convertScaleAbs(gradients): the absolute value rounded to
\* the nearest integer (ties to even) and saturated at 255
ConvertScaleAbs(units) ==
    LET d == 255 * 256
        a == Abs(units)
        q == a \div d
        m == a % d
        n == IF 2 * m > d \/ (2 * m = d /\ q % 2 = 1) THEN q + 1 ELSE q
    IN  PyMin(n, 255)

\* magnitude of every pixel, as <<value, row, column>>
Magnitude(p) ==
    {<<ConvertScaleAbs(Laplacian(p, r, c)), r, c>> :
        r \in 0 .. PanelHeight(p) - 1, c \in 0 .. PanelWidth(p) - 1}

\* The threshold Otsu's method picks for an image of one or two levels: 0
\* for a single level, the lower level for two (the first threshold that
\* separates the two classes).
OtsuThreshold(levels) ==
    IF Cardinality(levels) = 1 THEN 0
    ELSE CHOOSE a \in levels : \A b \in levels : a <= b

\* _, thresh = cv2.threshold(magnitude, 0, 255, THRESH_BINARY | THRESH_OTSU):
\* the pixels above the threshold
Thresh(p) ==
    LET magnitude == Magnitude(p)
        t == OtsuThreshold({m[1] : m \in magnitude})
    IN  {<<m[2], m[3]>> : m \in {k \in magnitude : k[1] > t}}

\* dilated = cv2.dilate(thresh, 3 x 3 rectangle): every pixel of the image
\* next to a marked one
Dilated(p) ==
    LET thresh == Thresh(p)
    IN  {px \in (0 .. PanelHeight(p) - 1) \X (0 .. PanelWidth(p) - 1) :
           \E m \in thresh : Abs(m[1] - px[1]) <= 1 /\ Abs(m[2] - px[2]) <= 1}

\* the mean luminance of a patch of the panel lies between those of its two
\* values: v / 255 for a gray pixel of value v
PanelLuminances(p) == {Fl(p.foreground, 255), Fl(PanelBackground, 255)}

\* contours, _ = cv2.findContours(dilated, RETR_EXTERNAL, CHAIN_APPROX_SIMPLE)
\* with the bounding box and the patch luminances of each: none when no
\* pixel is marked; otherwise the marked pixels are taken as one contour.
PanelContours(p) ==
    LET marked == Dilated(p)
    IN  IF marked = {} THEN {<<>>}
        ELSE LET x1 == CHOOSE x \in {m[2] : m \in marked} : \A m \in marked : x <= m[2]
                 x2 == CHOOSE x \in {m[2] : m \in marked} : \A m \in marked : x >= m[2]
                 y1 == CHOOSE y \in {m[1] : m \in marked} : \A m \in marked : y <= m[1]
                 y2 == CHOOSE y \in {m[1] : m \in marked} : \A m \in marked : y >= m[1]
             IN  {<<[bbox |-> [x |-> x1, y |-> y1, w |-> x2 - x1 + 1, h |-> y2 - y1 + 1],
                     fg |-> Some(f), bg |-> Some(b)]>> :
                    f \in PanelLuminances(p), b \in PanelLuminances(p)}

\* the auditors of the panel tests: ContrastAuditor(contrast_threshold=t)
PanelAuditors ==
    {[min_region_area |-> DefaultMinRegionArea, contrast_threshold |-> t,
      padding |-> DefaultPadding] :
        t \in {FOne, Fl(3, 1), DefaultContrastThreshold, Fl(11, 2)}}

\* auditor = ContrastAuditor(contrast_threshold=...)
PanelAuditorInit(cfg) ==
    /\ panAuditor' = Some(cfg)
    /\ panReport' = None
    /\ UNCHANGED panel
    /\ UNCHANGED OtherThanPan

\* _make_panel(foreground_value)
MakePanel(p) ==
    /\ panel' = Some(p)
    /\ panReport' = None
    /\ UNCHANGED panAuditor
    /\ UNCHANGED OtherThanPan

\* report = auditor.audit(panel)
AuditPanel ==
    /\ panAuditor # None
    /\ panel # None
    /\ panReport = None
    /\ \E contours \in PanelContours(Val(panel)) :
          panReport' = Some(AuditOf(Val(panAuditor),
                                    Some([height |-> PanelHeight(Val(panel)),
                                          width |-> PanelWidth(Val(panel))]),
                                    contours))
    /\ UNCHANGED <<panAuditor, panel>>
    /\ UNCHANGED OtherThanPan

InitPanel ==
    /\ panAuditor = None
    /\ panel = None
    /\ panReport = None

NextPanel ==
    \/ \E cfg \in PanelAuditors : PanelAuditorInit(cfg)
    \/ \E p \in Panels : MakePanel(p)
    \/ AuditPanel

\* ------------------------------------------------- ContrastReport.to_dict
\* most violations of a report that is serialized
MaxDictViolations == 2

\* ContrastViolation(bbox, contrast_ratio, description): the violations of
\* audit have a box and a ratio, those made from a language model's answer
\* have no box, a ratio if the answer gave an estimate, and a description;
\* every field defaults to None and a description can be the empty string.
DictViolations ==
    {[bbox |-> b, contrast_ratio |-> r, description |-> d] :
        b \in {None, Some(<<0, 0, 2, 2>>), Some(<<2, 1, 3, 2>>)},
        r \in {None, Some(Fl(3, 1))},
        d \in {None, Some(""), Some("Button | Severity: High")}}

RECURSIVE ViolationLists(_)
ViolationLists(n) ==
    IF n = 0 THEN {<<>>}
    ELSE LET shorter == ViolationLists(n - 1)
         IN  shorter \cup {Append(s, v) : s \in {q \in shorter : Len(q) = n - 1},
                                          v \in DictViolations}

\* ContrastReport(average_contrast, violations): the one report a behaviour
\* looks at
ContrastReportInit(average_contrast, violation_list) ==
    /\ dictArg = None
    /\ dictArg' = Some([average_contrast |-> average_contrast,
                        violations |-> violation_list])
    /\ dictOut' = None
    /\ UNCHANGED OtherThanDict

\* if self.bbox: None and the empty tuple are falsy
BboxTruthy(bbox) == bbox # None /\ Len(Val(bbox)) > 0

\* if self.description: None and the empty string are falsy
DescriptionTruthyNotNone(description) == description # None

DescriptionTruthy(description) == description # None /\ Val(description) # ""

\* ContrastViolation.to_dict: the keys of the mapping and the value of each
ViolationKeys(v) ==
    {"contrast_ratio"}
      \cup (IF BboxTruthy(v.bbox) THEN {"bbox"} ELSE {})
      \cup (IF DescriptionTruthy(v.description) THEN {"description"} ELSE {})

ViolationToDict(v) ==
    [key \in ViolationKeys(v) |->
        CASE key = "contrast_ratio" -> v.contrast_ratio
          [] key = "bbox" ->
               [x |-> Val(v.bbox)[1], y |-> Val(v.bbox)[2],
                width |-> Val(v.bbox)[3], height |-> Val(v.bbox)[4]]
          [] key = "description" -> Val(v.description)]

\* ContrastReport.to_dict
ReportToDict(r) ==
    [average_contrast |-> r.average_contrast,
     violations |-> [i \in 1 .. Len(r.violations) |-> ViolationToDict(r.violations[i])]]

ToDict ==
    /\ dictArg # None
    /\ dictOut = None
    /\ dictOut' = Some(ReportToDict(Val(dictArg)))
    /\ UNCHANGED dictArg
    /\ UNCHANGED OtherThanDict

InitDict ==
    /\ dictArg = None
    /\ dictOut = None

NextDict ==
    \/ \E a \in {0, Fl(3, 1)}, vs \in ViolationLists(MaxDictViolations) :
          ContrastReportInit(a, vs)
    \/ ToDict

\* ------------------------------------------ DesignAssistant._llm_to_contrast_report
\* most issues in the "contrast" part of a language model's answer
MaxIssues == 2

\* item of payload["issues"]: its contrast_ratio_estimate, if it has one; the
\* description is put together from its area, explanation, recommendation
\* and severity
LlmIssues ==
    {[contrast_ratio_estimate |-> e, description |-> Some("Button | Severity: High")] :
        e \in {None, Some(Fl(3, 1))}}

RECURSIVE IssueLists(_)
IssueLists(n) ==
    IF n = 0 THEN {<<>>}
    ELSE LET shorter == IssueLists(n - 1)
         IN  shorter \cup {Append(s, v) : s \in {q \in shorter : Len(q) = n - 1},
                                          v \in LlmIssues}

\* llm_analysis["contrast"]: an optional overall_score and a list of issues
LlmContrastPayloads ==
    {[overall_score |-> o, issues |-> is] :
        o \in {None} \cup {Some(x) : x \in LlmNumbers},
        is \in IssueLists(MaxIssues)}

\* The heuristic reports audit returns: no sample (average 0.0), samples
\* without violation at the default threshold, or samples with violations.
HeuristicReports ==
    {[average_contrast |-> 0, violations |-> <<>>],
     [average_contrast |-> Fl(7, 1), violations |-> <<>>],
     [average_contrast |-> FOne, violations |->
        <<[bbox |-> Some(<<0, 0, 2, 2>>), contrast_ratio |-> Some(FOne),
           description |-> None]>>],
     [average_contrast |-> Fl(5, 1), violations |->
        <<[bbox |-> Some(<<2, 1, 3, 2>>), contrast_ratio |-> Some(Fl(3, 1)),
           description |-> None]>>]}

\* issues.append(ContrastViolation(bbox=None,
\*     contrast_ratio=item.get("contrast_ratio_estimate"), description=...))
IssuesOf(payload) ==
    [i \in 1 .. Len(payload.issues) |->
        [bbox |-> None,
         contrast_ratio |-> payload.issues[i].contrast_ratio_estimate,
         description |-> payload.issues[i].description]]

\* if not issues and fallback.violations: return fallback
ReturnsFallback(issues, fallback) == issues = <<>> /\ fallback.violations # <<>>

\* DesignAssistant._llm_to_contrast_report(payload, fallback=...)
LlmToContrastReport(payload, fallback) ==
    LET issues == IssuesOf(payload)
        avg_contrast ==
            ClampScore(IF payload.overall_score # None
                       THEN Val(payload.overall_score)
                       ELSE fallback.average_contrast)
    IN  IF ReturnsFallback(issues, fallback) THEN fallback
        ELSE [average_contrast |-> avg_contrast, violations |-> issues]

LlmContrast(payload, fallback) ==
    /\ llmArgs' = Some([payload |-> payload, fallback |-> fallback])
    /\ llmOut' = Some(LlmToContrastReport(payload, fallback))
    /\ UNCHANGED OtherThanLlm

InitLlm ==
    /\ llmArgs = None
    /\ llmOut = None

NextLlm ==
    \E payload \in LlmContrastPayloads, fallback \in HeuristicReports :
        LlmContrast(payload, fallback)

\* ------------------------------------------------ SeleniumCollector.collect
\* most calls of collect in a behaviour
MaxCollects == 3

\* collect(url, output_dir), up to `try`: RuntimeError without the selenium
\* package; otherwise driver = self.driver_factory(), which creates the
\* driver or raises.
Collect(url, selenium_installed, factory_ok) ==
    /\ selPc \in {"idle", "returned", "raised"}
    /\ selCreated < MaxCollects
    /\ selArtifacts' = None
    /\ selLocals' = [url |-> url, visible_text |-> "", axe_results |-> None]
    /\ IF selenium_installed /\ factory_ok
       THEN /\ selPc' = "try"
            /\ selDriver' = "open"
            /\ selCreated' = selCreated + 1
            /\ selPending' = ""
       ELSE /\ selPc' = "raised"
            /\ selDriver' = "none"
            /\ selCreated' = selCreated
            /\ selPending' = IF selenium_installed THEN "Exception" ELSE "RuntimeError"
    /\ UNCHANGED selQuits
    /\ UNCHANGED OtherThanSel

\* an exception inside `try` leaves for the `finally` block
RaiseInTry ==
    /\ selPc' = "finally"
    /\ selPending' = "Exception"

\* driver.set_page_load_timeout, driver.get, time.sleep, dom_path.write_text
PageLoad(ok) ==
    /\ selPc = "try"
    /\ IF ok THEN selPc' = "loaded" /\ UNCHANGED selPending ELSE RaiseInTry
    /\ UNCHANGED <<selDriver, selCreated, selQuits, selLocals, selArtifacts>>
    /\ UNCHANGED OtherThanSel

\* body = driver.find_element(...); visible_text = body.text, with every
\* Exception caught
VisibleText(found) ==
    /\ selPc = "loaded"
    /\ selPc' = "text"
    /\ selLocals' = [selLocals EXCEPT
                       !.visible_text = IF found THEN "Sign up now" ELSE ""]
    /\ UNCHANGED <<selDriver, selPending, selCreated, selQuits, selArtifacts>>
    /\ UNCHANGED OtherThanSel

\* self._capture_full_page_screenshot(driver); screenshot_loader.load_from_bytes
Screenshot(ok) ==
    /\ selPc = "text"
    /\ IF ok THEN selPc' = "shot" /\ UNCHANGED selPending ELSE RaiseInTry
    /\ UNCHANGED <<selDriver, selCreated, selQuits, selLocals, selArtifacts>>
    /\ UNCHANGED OtherThanSel

\* if Axe is not None: inject, _run_axe_minimal, on an Exception
\* _run_axe_stringified; the exceptions of writing the results are caught
RunAxe(axe_installed, inject_ok, minimal_ok, fallback_ok) ==
    /\ selPc = "shot"
    /\ IF ~axe_installed \/ (inject_ok /\ (minimal_ok \/ fallback_ok))
       THEN selPc' = "finally" /\ UNCHANGED selPending
       ELSE RaiseInTry
    /\ selLocals' = [selLocals EXCEPT
                       !.axe_results =
                           IF axe_installed /\ inject_ok /\ (minimal_ok \/ fallback_ok)
                           THEN Some("axe results") ELSE None]
    /\ UNCHANGED <<selDriver, selCreated, selQuits, selArtifacts>>
    /\ UNCHANGED OtherThanSel

\* finally: the block runs whether or not an exception is on its way out
FinallyRunsOnlyWithoutException(pending) == pending = ""

FinallyRuns(pending) == TRUE

\* finally: driver.quit(), which can raise itself; then the pending
\* exception goes on, or collect returns the artifacts
Finally(quit_ok) ==
    /\ selPc = "finally"
    /\ IF FinallyRuns(selPending)
       THEN /\ selDriver' = "quit"
            /\ selQuits' = selQuits + 1
            /\ selPending' = IF quit_ok THEN selPending ELSE "Exception"
       ELSE UNCHANGED <<selDriver, selQuits, selPending>>
    /\ selPc' = IF selPending' = "" THEN "returned" ELSE "raised"
    /\ selArtifacts' =
         IF selPending' = ""
         THEN Some([url |-> selLocals.url,
                    visible_text |-> selLocals.visible_text,
                    axe_results |-> selLocals.axe_results,
                    accessibility |-> None])
         ELSE None
    /\ UNCHANGED <<selCreated, selLocals>>
    /\ UNCHANGED OtherThanSel

InitSel ==
    /\ selPc = "idle"
    /\ selDriver = "none"
    /\ selPending = ""
    /\ selCreated = 0
    /\ selQuits = 0
    /\ selLocals = [url |-> "", visible_text |-> "", axe_results |-> None]
    /\ selArtifacts = None

\* the steps of a call that is under way
CollectSteps ==
    \/ \E ok \in BOOLEAN : PageLoad(ok)
    \/ \E found \in BOOLEAN : VisibleText(found)
    \/ \E ok \in BOOLEAN : Screenshot(ok)
    \/ \E a, i, m, f \in BOOLEAN : RunAxe(a, i, m, f)
    \/ \E ok \in BOOLEAN : Finally(ok)

NextSel ==
    \/ \E url \in {"https://a.example", "https://b.example"}, s, f \in BOOLEAN :
          Collect(url, s, f)
    \/ CollectSteps

\* ---------------------------------------- AuditHistoryManager, History page
\* most entries the audit history holds in the model
MaxHistory == 3

\* the input_value of an audit, and what the search box of the page holds
InputValues == {"https://a.example", "shot.png"}

SearchTerms == {"", "shot"}

\* search_term.lower() in h.get('input_value', '').lower()
Matches(search_term, input_value) ==
    \/ search_term = ""
    \/ search_term = "shot" /\ input_value = "shot.png"

\* 'id': len(st.session_state.audit_history) + 1
NewId(history) == Len(history) + 1

\* AuditHistoryManager.add_audit(result_data): the entry is inserted at the
\* head of the list and the list is saved
AddAudit(input_value) ==
    /\ Len(audit_history) < MaxHistory
    /\ audit_history' = <<[id |-> NewId(audit_history), input_value |-> input_value]>>
                          \o audit_history
    /\ history_file' = audit_history'
    /\ UNCHANGED <<confirm_delete, armed, lastDeletion>>
    /\ UNCHANGED OtherThanHist

\* AuditHistoryManager.get_audit_by_id(audit_id): the first entry of that id
GetAuditById(audit_id) ==
    IF \E i \in 1 .. Len(audit_history) : audit_history[i].id = audit_id
    THEN Some(audit_history[CHOOSE i \in 1 .. Len(audit_history) :
                              /\ audit_history[i].id = audit_id
                              /\ \A j \in 1 .. i - 1 : audit_history[j].id # audit_id])
    ELSE None

\* AuditHistoryManager.delete_audits(audit_ids): what is left of the list
AfterDelete(history, audit_ids) ==
    SelectSeq(history, LAMBDA audit : audit.id \notin audit_ids)

\* filtered_history of the page for the text in the search box
FilteredHistory(search_term) ==
    SelectSeq(audit_history, LAMBDA h : Matches(search_term, h.input_value))

\* A click on a delete button whose confirmation key is `key` and which
\* deletes `audit_ids`: with the key set in the session state the audits are
\* deleted and the list is saved; otherwise the key is set.  No branch
\* resets the key.
ClickDeleteButton(key, audit_ids) ==
    IF key \in confirm_delete
    THEN /\ audit_history' = AfterDelete(audit_history, audit_ids)
         /\ history_file' = audit_history'
         /\ lastDeletion' = Some([button |-> key, armed |-> key \in armed])
         /\ armed' = armed \ {key}
         /\ UNCHANGED confirm_delete
    ELSE /\ confirm_delete' = confirm_delete \cup {key}
         /\ armed' = armed \cup {key}
         /\ UNCHANGED <<audit_history, history_file, lastDeletion>>

\* the dustbin button of the i-th displayed audit
ClickDelete(search_term, i) ==
    /\ i \in 1 .. Len(FilteredHistory(search_term))
    /\ LET audit == FilteredHistory(search_term)[i]
       IN  ClickDeleteButton(<<"confirm_delete", audit.id>>, {audit.id})
    /\ UNCHANGED OtherThanHist

\* the ids of a list of entries
IdsOf(history) == {history[i].id : i \in 1 .. Len(history)}

\* "Delete All Audits", shown when the history is not empty
ClickDeleteAll ==
    /\ audit_history # <<>>
    /\ ClickDeleteButton(<<"confirm_delete_all", 0>>, IdsOf(audit_history))
    /\ UNCHANGED OtherThanHist

\* "Delete Filtered Audits", shown when the history is not empty
ClickDeleteFiltered(search_term) ==
    /\ audit_history # <<>>
    /\ ClickDeleteButton(<<"confirm_delete_filtered", 0>>,
                         IdsOf(FilteredHistory(search_term)))
    /\ UNCHANGED OtherThanHist

InitHist ==
    /\ audit_history = <<>>
    /\ history_file = <<>>
    /\ confirm_delete = {}
    /\ armed = {}
    /\ lastDeletion = None

NextHist ==
    \/ \E v \in InputValues : AddAudit(v)
    \/ \E t \in SearchTerms, i \in 1 .. MaxHistory : ClickDelete(t, i)
    \/ ClickDeleteAll
    \/ \E t \in SearchTerms : ClickDeleteFiltered(t)

\* ------------------------------------------------------------ specifications
\* nothing of the components below is constructed
InitNew ==
    /\ InitPanel /\ InitDict /\ InitLlm /\ InitSel /\ InitHist

Init ==
    /\ InitAcc /\ InitFair /\ InitContrast
    /\ InitRatioIdle /\ InitLumIdle /\ InitPipeline /\ InitOrderIdle
    /\ InitNew

SpecAccessibility == Init /\ [][NextAcc]_vars

SpecFusion == Init /\ [][NextFusion]_vars

SpecContrast == Init /\ [][NextContrast]_vars

SpecPipeline == Init /\ [][NextPipeline]_vars

\* a pair of luminances is given; nothing else is constructed
InitPair ==
    /\ InitAcc /\ InitFair /\ InitContrast
    /\ InitRatio /\ InitLumIdle /\ InitPipeline /\ InitOrderIdle
    /\ InitNew

SpecRatio == InitPair /\ [][NextRatio]_vars

\* a patch of pixels is given; nothing else is constructed
InitPatch ==
    /\ InitAcc /\ InitFair /\ InitContrast
    /\ InitRatioIdle /\ InitLum /\ InitPipeline /\ InitOrderIdle
    /\ InitNew

SpecLuminance == InitPatch /\ [][NextLuminance]_vars

\* an auditor and the regions of a picture are given; nothing else is constructed
InitRegions ==
    /\ InitAcc /\ InitFair /\ InitContrast
    /\ InitRatioIdle /\ InitLumIdle /\ InitPipeline /\ InitOrder
    /\ InitNew

SpecOrder == InitRegions /\ [][NextOrder]_vars

SpecPanel == Init /\ [][NextPanel]_vars

SpecDict == Init /\ [][NextDict]_vars

SpecLlm == Init /\ [][NextLlm]_vars

\* collect runs to its end: the page load and the scripts have timeouts, so a
\* call that is under way takes its next step
SpecSelenium == Init /\ [][NextSel]_vars /\ WF_vars(CollectSteps)

SpecHistory == Init /\ [][NextHist]_vars

\* ------------------------------------------------------------------ claims
\* the contours the loop sampled, in order
Sampled == SelectSeq(visited, LAMBDA v : v.outcome = "sampled")

RECURSIVE SumRatios(_)
SumRatios(s) == IF s = <<>> THEN 0 ELSE Val(Head(s).ratio) + SumRatios(Tail(s))

\* C1: for every pair of luminances in [0, 1] the contrast ratio that audit
\* computes is at least 1.0, and it is the same with the two swapped.
C1_RatioFloorSymmetric ==
    /\ ratOut # None => Val(ratOut) >= FOne
    /\ ratSwapped # None => Val(ratSwapped) >= FOne
    /\ (ratOut # None /\ ratSwapped # None) => ratOut = ratSwapped

\* C1 witness: a foreground darker than its background, measured both ways
C1_Witness ==
    /\ ratArgs[1] < ratArgs[2]
    /\ ratOut # None /\ ratSwapped # None
    /\ Val(ratOut) > FOne

\* C2: the violations are exactly the sampled regions whose ratio is strictly
\* below contrast_threshold, in order, each with that region's box (x, y, w, h)
\* and ratio; a ratio equal to the threshold is not flagged.
C2_FlaggedIffBelow ==
    LET below == SelectSeq(Sampled,
                   LAMBDA v : Val(v.ratio) < Val(auditor).contrast_threshold)
        expected == [i \in 1 .. Len(below) |->
                       [bbox |-> Some(<<below[i].bbox.x, below[i].bbox.y,
                                        below[i].bbox.w, below[i].bbox.h>>),
                        contrast_ratio |-> below[i].ratio,
                        description |-> None]]
    IN  /\ pc \in {"loop", "done"} => violations = expected
        /\ pc = "done" => Val(report).violations = expected

\* C2 witness: an audit that returned with one region flagged and one whose
\* ratio is at or above the threshold not flagged
C2_Witness ==
    /\ pc = "done"
    /\ Len(Sampled) = 2
    /\ Len(Val(report).violations) = 1
    /\ Val(Sampled[1].ratio) >= Val(auditor).contrast_threshold
    /\ Val(Sampled[2].ratio) < Val(auditor).contrast_threshold

\* C3: when at least one region was sampled, average_contrast is the mean of
\* the ratios of all sampled regions, flagged or not (up to the rounding of
\* the additions and the division that compute it).
C3_AverageOfAllSamples ==
    (pc = "done" /\ Len(Sampled) > 0) =>
        LET n == Len(Sampled)
            total == SumRatios(Sampled)
            avg == Val(report).average_contrast
        IN  /\ Len(contrast_samples) = n
            /\ Abs(avg * n - total) * Pow2(FPrec) <= n * total

\* C3 witness: two sampled regions of different ratios, only one flagged
C3_Witness ==
    /\ pc = "done"
    /\ Len(Sampled) = 2
    /\ Len(Val(report).violations) = 1
    /\ Sampled[1].ratio # Sampled[2].ratio

\* C4: audit of None or of a zero-size image raises ValueError before any
\* region detection or contrast computation and returns no report; only a
\* non-empty image gets as far as the detection.
C4_EmptyImageRaises ==
    /\ pc = "raised" =>
         /\ error = "ValueError"
         /\ ~detected
         /\ visited = <<>> /\ contrast_samples = <<>> /\ violations = <<>>
         /\ report = None
    /\ pc \in {"loop", "done"} =>
         /\ image # None
         /\ Val(image).height * Val(image).width * 3 > 0
         /\ error = ""

\* C4 witness: a zero-size image (not None) was rejected
C4_Witness ==
    /\ pc = "raised"
    /\ image # None
    /\ Val(image).height = 0 /\ Val(image).width > 0

\* C5: an audit that samples no region returns average_contrast 0.0 and no
\* violations, without raising.
C5_NoSampleAverageZero ==
    (pc = "done" /\ Len(Sampled) = 0) =>
        /\ error = ""
        /\ report = Some([average_contrast |-> 0, violations |-> <<>>])

\* C5 witness: contours were detected and every one was filtered out
C5_Witness ==
    /\ pc = "done"
    /\ nContours = 2
    /\ \A i \in 1 .. Len(visited) : visited[i].outcome = "filtered"
    /\ Val(report).average_contrast = 0

\* the value property has been read on the current DesignFairnessScore
ValueRead == fairness # None /\ (fairValue # None \/ fairError # "")

\* C6 as claimed: accessibility None and beta > 0 give exactly ethical_ux_score
C6_ExactlyEthics ==
    (ValueRead /\ Val(fairness).accessibility_score = None
               /\ Val(fairness).beta > 0)
        => fairValue = Some(Val(fairness).ethical_ux_score)

\* C6 as amended: with accessibility None and beta > 0 alpha has no part in
\* the value, which is (ethical_ux_score * beta) / beta in floating point: it
\* is ethical_ux_score exactly when the product is exact (0.8 * 0.5 is), and
\* within the rounding error of one multiplication and one division of it
\* otherwise.
C6_EthicsUpToRounding ==
    (ValueRead /\ Val(fairness).accessibility_score = None
               /\ Val(fairness).beta > 0)
        => LET e == Val(fairness).ethical_ux_score
               b == Val(fairness).beta
           IN  /\ fairValue # None
               /\ FMul(e, b) * FOne = e * b => Val(fairValue) = e
               /\ Abs(Val(fairValue) - e) * Pow2(2 * FPrec)
                    <= e * (2 * Pow2(FPrec) + 1)

\* C6 witness: the case of the spec, fuse(None, 0.8, 0.5, 0.5) = 0.8
C6_Witness ==
    /\ fairness = Some([accessibility_score |-> None, ethical_ux_score |-> Fl(4, 5),
                        alpha |-> Fl(1, 2), beta |-> Fl(1, 2)])
    /\ fairValue = Some(Fl(4, 5))

\* C7: scores in [0, 1] (or accessibility None), weights >= 0 and a non-zero
\* normalizer give a value in [0, 1].
C7_ValueInUnitInterval ==
    LET f == Val(fairness)
    IN  (/\ ValueRead
         /\ f.alpha >= 0 /\ f.beta >= 0
         /\ 0 <= f.ethical_ux_score /\ f.ethical_ux_score <= FOne
         /\ f.accessibility_score # None =>
              /\ 0 <= Val(f.accessibility_score)
              /\ Val(f.accessibility_score) <= FOne
              /\ ~(f.alpha = 0 /\ f.beta = 0)
         /\ f.accessibility_score = None => f.beta > 0)
        => /\ fairValue # None
           /\ 0 <= Val(fairValue)
           /\ Val(fairValue) <= FOne

\* C7 witness: both scores 1 with unequal weights reach the upper end
C7_Witness ==
    /\ ValueRead
    /\ Val(fairness).accessibility_score = Some(FOne)
    /\ Val(fairness).ethical_ux_score = FOne
    /\ Val(fairness).alpha = Fl(1, 10)
    /\ Val(fairness).beta = Fl(7, 10)
    /\ fairValue = Some(FOne)

\* C8: a zero normalizer (alpha = beta = 0, or accessibility None and
\* beta = 0) gives the value 0.0 and no division error, whatever the scores.
C8_ZeroNormalizer ==
    LET f == Val(fairness)
    IN  (/\ ValueRead
         /\ \/ f.alpha = 0 /\ f.beta = 0
            \/ f.accessibility_score = None /\ f.beta = 0)
        => fairError = "" /\ fairValue = Some(0)

\* C8 witness: accessibility None, beta 0, alpha and ethics not 0
C8_Witness ==
    /\ ValueRead
    /\ Val(fairness).accessibility_score = None
    /\ Val(fairness).beta = 0
    /\ Val(fairness).alpha > 0
    /\ Val(fairness).ethical_ux_score > 0
    /\ fairValue = Some(0)

\* number of violation records in the results of the last audit_from_raw call
AccCount == Len(ViolationsJson(accResults))

\* C9: audit_from_raw on n violation records returns a score in [0, 1] that
\* is max(0, 1 - n/baseline): it is 0 (never negative) when n >= baseline,
\* 1 when n = 0, and otherwise 1 - n/baseline up to the rounding of the one
\* division and the one subtraction (at most 2^-FPrec in all).
C9_ScoreBounded ==
    accReport # None =>
        LET n == AccCount
            b == Val(accAuditor).baseline
            s == Val(accReport).score
        IN  /\ 0 <= s /\ s <= FOne
            /\ Len(Val(accReport).violations) = n
            /\ n >= b => s = 0
            /\ n = 0 => s = FOne
            /\ n <= b => Abs(s * b - (b - n) * FOne) * Pow2(FPrec) <= b * FOne

\* C9 witness: more violations than the baseline, score capped at 0
C9_Witness ==
    /\ accReport # None
    /\ AccCount > Val(accAuditor).baseline
    /\ Val(accReport).score = 0

\* C10: after construction baseline >= 1; a baseline argument <= 0 is stored
\* as 1 (a positive one as given), and audit_from_raw never divides by zero.
C10_BaselineClamped ==
    /\ accAuditor # None =>
         /\ Val(accAuditor).baseline >= 1
         /\ Val(accArg) <= 0 => Val(accAuditor).baseline = 1
         /\ Val(accArg) >= 1 => Val(accAuditor).baseline = Val(accArg)
    /\ accError # "ZeroDivisionError"

\* C10 witness: constructed with baseline <= 0, then audited
C10_Witness ==
    /\ accAuditor # None
    /\ Val(accArg) <= 0
    /\ Val(accAuditor).baseline = 1
    /\ accReport # None
    /\ AccCount > 0

\* the area w * h of a visited contour's bounding box
BoxArea(v) == v.bbox.w * v.bbox.h

\* C14: a box whose area w * h is below min_region_area is dropped by the
\* filter and gives neither a sample nor a violation; a box whose area is
\* exactly (or above) min_region_area passes the filter, and every sample and
\* every violation belongs to a box that passed.
C14_AreaFilter ==
    pc \in {"loop", "done"} =>
        /\ \A i \in 1 .. Len(visited) :
              (visited[i].outcome = "filtered")
                 <=> (BoxArea(visited[i]) < Val(auditor).min_region_area)
        /\ Len(contrast_samples) = Len(Sampled)
        /\ \A i \in 1 .. Len(violations) :
              Val(violations[i].bbox)[3] * Val(violations[i].bbox)[4]
                 >= Val(auditor).min_region_area

\* C14 witness: one audit met a box one short of being kept, which was
\* dropped, and a box of exactly min_region_area, which was flagged
C14_Witness ==
    /\ pc = "done"
    /\ Len(visited) = 2
    /\ BoxArea(visited[1]) < Val(auditor).min_region_area
    /\ visited[1].outcome = "filtered"
    /\ BoxArea(visited[2]) = Val(auditor).min_region_area
    /\ visited[2].outcome = "sampled"
    /\ Len(Val(report).violations) = 1

\* the padding ring of a visited contour: the crop's pixels outside its box
RingPixels(v) ==
    CropPixels(image, v.bbox, Val(auditor).padding) \ RegionPixels(v.bbox)

\* C12: a region whose padding ring has no pixel (padding 0, or a region that
\* spans the image) is skipped: it gives no sample and no violation.
C12_ZeroRingSkipped ==
    pc \in {"loop", "done"} =>
        \A i \in 1 .. Len(visited) :
            RingPixels(visited[i]) = {} => visited[i].outcome # "sampled"

\* C13: for every region handed to _extract_background the pixels that the
\* inpainting call reconstructs are exactly the pixels of the region's box,
\* and the pixels it keeps as the known source are exactly the padding ring.
C13_MaskMarksRegion ==
    pc \in {"loop", "done"} =>
        \A i \in 1 .. Len(visited) :
            visited[i].outcome # "filtered" =>
                /\ Inpainted(image, visited[i].bbox, Val(auditor).padding)
                      = RegionPixels(visited[i].bbox)
                /\ Kept(image, visited[i].bbox, Val(auditor).padding)
                      = RingPixels(visited[i])

\* 10000 * (0.2126 R + 0.7152 G + 0.0722 B), summed over the pixels of a patch
RECURSIVE WeightedChannels(_)
WeightedChannels(rgb) ==
    IF rgb = <<>> THEN 0
    ELSE 2126 * Head(rgb)[1] + 7152 * Head(rgb)[2] + 722 * Head(rgb)[3]
           + WeightedChannels(Tail(rgb))

\* the mean over the pixels of (0.2126 R + 0.7152 G + 0.0722 B) / 255 in
\* units of 2^-FFrac, rounded down (by less than two units)
ExactLuminance(rgb) ==
    ((WeightedChannels(rgb) \div 255) * FOne) \div (10000 * Len(rgb))

\* C15: _relative_luminance returns None for a zero-size patch; for a
\* non-empty 8-bit RGB patch it returns a value in [0, 1] that is the mean
\* over the pixels of (0.2126 R + 0.7152 G + 0.0722 B) / 255, up to the
\* rounding of the float operations that compute it.
C15_LuminanceOfPatch ==
    lumOut # None =>
        LET r == Val(lumOut)
            n == Len(lumPatch)
        IN  /\ n = 0 => r = None
            /\ n > 0 =>
                 /\ r # None
                 /\ 0 <= Val(r) /\ Val(r) <= FOne
                 /\ Abs(Val(r) - ExactLuminance(lumPatch)) * Pow2(FPrec)
                      <= (8 + n) * (ExactLuminance(lumPatch) + 2) + 2 * Pow2(FPrec)

\* C15 witness: a white pixel next to a coloured one; the white one alone
\* would have luminance exactly 1
C15_Witness ==
    /\ lumOut # None
    /\ Len(lumPatch) = 2
    /\ lumPatch[1] = <<255, 255, 255>>
    /\ lumPatch[2] = <<185, 0, 255>>
    /\ DotCoefficients(lumPatch[1]) = FOne
    /\ Val(Val(lumOut)) > 0 /\ Val(Val(lumOut)) < FOne

\* both weights of the second score are exactly k times those of the first
ExactlyScaled ==
    /\ fairScaled # None
    /\ Val(fairScaled).score.alpha * FOne = Val(fairScaled).k * Val(fairness).alpha
    /\ Val(fairScaled).score.beta * FOne = Val(fairScaled).k * Val(fairness).beta

\* no intermediate result of the value of f is so small that it loses
\* significand bits (binary64: nothing below 2^-1022)
NoUnderflow(f) ==
    LET normal(x, unit) == x = 0 \/ x >= Pow2(FPrec - 1) * unit
    IN  /\ normal(OrZero(f.accessibility_score) * f.alpha, FOne)
        /\ normal(f.ethical_ux_score * f.beta, FOne)
        /\ ValueOf(f) # None => normal(Val(ValueOf(f)), 1)

\* C18 as claimed: multiplying alpha and beta by the same k > 0 leaves the
\* value unchanged (here even with every underflow set aside).
C18_ScaleInvariant ==
    (/\ ExactlyScaled
     /\ NoUnderflow(Val(fairness)) /\ NoUnderflow(Val(fairScaled).score))
        => Val(fairScaled).value = fairValue

\* C18 as amended: the value is unchanged when k is a power of two, and for
\* any other k > 0 it changes by no more than the rounding of the four
\* operations on each side (barring underflow); a zero normalizer stays zero
\* and gives 0.0 on both sides.
C18_ScaleUpToRounding ==
    (/\ ExactlyScaled
     /\ NoUnderflow(Val(fairness)) /\ NoUnderflow(Val(fairScaled).score))
        => LET k == Val(fairScaled).k
               v == Val(fairValue)
               w == Val(Val(fairScaled).value)
           IN  /\ Val(fairScaled).value # None
               /\ k \in {Fl(1, 2), Fl(2, 1)} => w = v
               /\ Abs(w - v) * Pow2(FPrec) <= 9 * PyMax(v, w)

\* C18 witness: weights 0.5 and 1.0 scaled by 3 to 1.5 and 3.0, accessibility
\* present, the value read on both scores
C18_Witness ==
    /\ ExactlyScaled
    /\ NoUnderflow(Val(fairness)) /\ NoUnderflow(Val(fairScaled).score)
    /\ Val(fairScaled).k = Fl(3, 1)
    /\ Val(fairness).accessibility_score = Some(Fl(4, 5))
    /\ Val(fairness).ethical_ux_score = Fl(1, 2)
    /\ Val(fairness).alpha = Fl(1, 2) /\ Val(fairness).beta = FOne
    /\ Val(fairScaled).score.beta = Fl(3, 1)
    /\ Val(fairScaled).value # None

\* C19: every DesignAssistant.run that returns, with alpha and beta >= 0,
\* has an accessibility score in [0, 1] or none, an ethical-UX score in
\* [0, 1] (the heuristic one or the language model's replacement), and a
\* fairness value in [0, 1].
C19_RunFairnessInUnitInterval ==
    (runResult # None /\ Val(assistant).alpha >= 0 /\ Val(assistant).beta >= 0) =>
        LET r == Val(runResult)
        IN  /\ r.accessibility # None =>
                 0 <= Val(r.accessibility) /\ Val(r.accessibility) <= FOne
            /\ 0 <= r.dark_patterns /\ r.dark_patterns <= FOne
            /\ r.value # None
            /\ 0 <= Val(r.value) /\ Val(r.value) <= FOne

\* C19 witness: a URL run whose language model answered with an overall
\* score of 1.5, fused with an accessibility score below 1 under unequal
\* weights
C19_Witness ==
    /\ runResult # None
    /\ Val(runArgs).mode = "url"
    /\ Val(runResult).llm_analysis # None
    /\ Val(Val(runResult).llm_analysis).overall_score = Some(Fl(3, 2))
    /\ Val(runResult).dark_patterns = FOne
    /\ Val(runResult).accessibility # None
    /\ Val(Val(runResult).accessibility) < FOne
    /\ Val(assistant).alpha = Fl(1, 2) /\ Val(assistant).beta = Fl(3, 1)
    /\ Val(Val(runResult).value) > 0 /\ Val(Val(runResult).value) < FOne

\* C17: audit changes neither the auditor's configuration nor what the
\* image's pixels show (every later look at a contour finds what the first
\* look found), and an audit of the same image by the same auditor returns a
\* report equal to the one before.
C17_AuditRepeatable ==
    /\ [](pc = "done" /\ lastReport # None => report = lastReport)
    /\ [][/\ auditor # None => auditor' = auditor
          /\ scene # None =>
               /\ scene' # None
               /\ Val(scene').contours = Val(scene).contours
               /\ Len(Val(scene').found) >= Len(Val(scene).found)
               /\ SubSeq(Val(scene').found, 1, Len(Val(scene).found))
                    = Val(scene).found]_vars

\* C17 witness: a second audit of the picture has returned; like the first it
\* sampled two regions and flagged one of them
C17_Witness ==
    /\ pc = "done"
    /\ lastReport # None
    /\ report = lastReport
    /\ Len(Sampled) = 2
    /\ Len(Val(report).violations) = 1

\* both orders of the regions have been audited
BothOrders == ordReport # None /\ ordOther # None

\* the set of the violations of a report
ViolationSet(r) == {r.violations[i] : i \in 1 .. Len(r.violations)}

\* the regions of ordArgs that pass the filter, all of which are sampled
OrderSamples ==
    Len(SelectSeq(ordArgs.contours,
                  LAMBDA c : ~TooSmall(c.bbox, ordArgs.auditor.min_region_area)))

\* C16 as claimed: the set of violations and the value of average_contrast
\* are the same for every order in which the regions are processed.
C16_OrderIndependent ==
    BothOrders =>
        /\ ViolationSet(Val(ordOther).report) = ViolationSet(Val(ordReport))
        /\ Val(ordOther).report.average_contrast = Val(ordReport).average_contrast

\* C16 as amended: in every processing order the same regions are flagged,
\* each as often, and the same number of samples is averaged; the average is
\* the same when fewer than three regions are sampled, and otherwise the same
\* up to the rounding of the additions, which are made in a different order.
C16_OrderUpToRounding ==
    BothOrders =>
        LET a == Val(ordReport)
            b == Val(ordOther).report
            n == OrderSamples
        IN  /\ ViolationSet(b) = ViolationSet(a)
            /\ Len(b.violations) = Len(a.violations)
            /\ \A v \in ViolationSet(a) :
                 Cardinality({i \in 1 .. Len(a.violations) : a.violations[i] = v})
                   = Cardinality({i \in 1 .. Len(b.violations) : b.violations[i] = v})
            /\ n < 3 => b.average_contrast = a.average_contrast
            /\ Abs(b.average_contrast - a.average_contrast) * Pow2(FPrec)
                 <= 2 * n * PyMax(a.average_contrast, b.average_contrast)

\* C16 witness: three sampled regions of which the first two are flagged
\* and the third, of another ratio, is not, audited in the order given and
\* with the first and last exchanged
C16_Witness ==
    /\ BothOrders
    /\ OrderSamples = 3
    /\ Val(ordOther).order = <<3, 2, 1>>
    /\ ordArgs.contours[1] # ordArgs.contours[3]
    /\ Len(Val(ordReport).violations) = 2
    /\ Len(Val(ordOther).report.violations) = 2

\* C20 as claimed: a report with no violations after at least one sample has
\* average_contrast >= contrast_threshold.
C20_AverageMeetsThreshold ==
    (ordReport # None /\ OrderSamples >= 1 /\ Val(ordReport).violations = <<>>)
        => Val(ordReport).average_contrast >= ordArgs.auditor.contrast_threshold

\* C20 as amended: with no violations after n >= 1 samples the average is at
\* least the threshold up to the rounding of the sum and the division; it is
\* at least the threshold exactly when n <= 2, or when every multiple
\* k * contrast_threshold for k <= n is a float (as for the default 4.5).
C20_AverageMeetsThresholdUpToRounding ==
    (ordReport # None /\ OrderSamples >= 1 /\ Val(ordReport).violations = <<>>)
        => LET n == OrderSamples
               t == ordArgs.auditor.contrast_threshold
               avg == Val(ordReport).average_contrast
           IN  /\ avg * (Pow2(FPrec) + n) >= t * Pow2(FPrec)
               /\ (n <= 2 \/ \A k \in 1 .. n : Round(k * t, 1) = k * t) => avg >= t

\* C20 witness: three regions sampled under the default threshold 4.5, none
\* flagged, not all of the same ratio
C20_Witness ==
    /\ ordReport # None
    /\ OrderSamples = 3
    /\ ordArgs.auditor.contrast_threshold = DefaultContrastThreshold
    /\ Val(ordReport).violations = <<>>
    /\ ordArgs.contours[1] # ordArgs.contours[2]
    /\ Val(ordReport).average_contrast >= DefaultContrastThreshold

\* the rectangle at offset (x - x1, y - y1) inside the clipped crop, of the
\* region's width and height, as pixels of the image
OffsetRectangle(img, b, pad) ==
    LET c == BackgroundCrop(img, b, pad)
    IN  {px \in CropPixels(img, b, pad) :
           /\ b.y - c.y1 <= px[1] - c.y1 /\ px[1] - c.y1 < b.y - c.y1 + b.h
           /\ b.x - c.x1 <= px[2] - c.x1 /\ px[2] - c.x1 < b.x - c.x1 + b.w}

\* C23: for every region and padding, also where the padded box is clipped
\* at the top or left edge of the image, the rectangle that the mask of
\* _extract_background singles out (its zero pixels) lies at offset
\* (x - x1, y - y1) inside the clipped crop and so covers exactly the pixels
\* of the original region.
C23_MaskRectangleOnRegion ==
    pc \in {"loop", "done"} =>
        \A i \in 1 .. Len(visited) :
            visited[i].outcome # "filtered" =>
                LET b == visited[i].bbox
                    pad == Val(auditor).padding
                IN  /\ Kept(image, b, pad) = OffsetRectangle(image, b, pad)
                    /\ OffsetRectangle(image, b, pad) = RegionPixels(b)

\* the score of the current state with its accessibility score taken away
WithoutAccessibility == [Val(fairness) EXCEPT !.accessibility_score = None]

ScreenshotReturned ==
    runResult # None /\ Val(runArgs).mode = "screenshot"

\* C25 as claimed: a SCREENSHOT run invokes neither the Selenium collector
\* nor the accessibility auditor, returns no accessibility report and a
\* fairness score without accessibility score, and for beta > 0 its fairness
\* value is exactly the dark-pattern score of the result.
C25_ScreenshotValueIsEthics ==
    ScreenshotReturned =>
        LET r == Val(runResult)
        IN  /\ Val(runArgs).calls \cap {"selenium_collector.collect",
                                        "accessibility_auditor.audit_from_raw"} = {}
            /\ r.accessibility = None
            /\ r.fairness.accessibility_score = None
            /\ Val(assistant).beta > 0 => r.value = Some(r.dark_patterns)

\* C25 as amended: a SCREENSHOT run invokes neither the Selenium collector
\* nor the accessibility auditor, returns no accessibility report and a
\* fairness score without accessibility score; for beta > 0 its fairness
\* value is (score * beta) / beta for the dark-pattern score of the result,
\* the same for every alpha: the score itself when the product is exact (as
\* for the heuristic score 1.0 of the empty page text), and within the
\* rounding of one multiplication and one division of it otherwise.
C25_ScreenshotValueIsEthicsUpToRounding ==
    ScreenshotReturned =>
        LET r == Val(runResult)
            e == r.dark_patterns
            b == Val(assistant).beta
        IN  /\ Val(runArgs).calls \cap {"selenium_collector.collect",
                                        "accessibility_auditor.audit_from_raw"} = {}
            /\ r.accessibility = None
            /\ r.fairness.accessibility_score = None
            /\ b > 0 =>
                 /\ r.value # None
                 /\ \A al \in AssistantWeights :
                        ValueOf([r.fairness EXCEPT !.alpha = al]) = r.value
                 /\ FMul(e, b) * FOne = e * b => Val(r.value) = e
                 /\ r.llm_analysis = None => Val(r.value) = FOne
                 /\ Abs(Val(r.value) - e) * Pow2(2 * FPrec)
                      <= e * (2 * Pow2(FPrec) + 1)

\* C25 witness: a screenshot run with alpha 0.5 and beta 3 whose language
\* model gave the overall score 0.1
C25_Witness ==
    /\ ScreenshotReturned
    /\ Val(assistant).alpha = Fl(1, 2) /\ Val(assistant).beta = Fl(3, 1)
    /\ Val(runResult).llm_analysis # None
    /\ Val(runResult).dark_patterns = Fl(1, 10)
    /\ Val(runResult).value # None
    /\ Val(runResult).fairness.accessibility_score = None

\* C26: in every result that run returns the fairness score's components
\* are the scores of the reports of that same result: ethical_ux_score is
\* dark_patterns.score (the language model's replacement when there was
\* one, the heuristic score otherwise) and accessibility_score is
\* accessibility.score, None exactly when there is no accessibility report.
C26_FairnessComponentsAreReportScores ==
    runResult # None =>
        LET r == Val(runResult)
        IN  /\ r.fairness.ethical_ux_score = r.dark_patterns
            /\ r.llm_analysis # None =>
                 r.dark_patterns = LlmToDarkPatternScore(Val(r.llm_analysis),
                                                         Val(runArgs).dark_patterns)
            /\ r.llm_analysis = None => r.dark_patterns = Val(runArgs).dark_patterns
            /\ r.fairness.accessibility_score = r.accessibility
            /\ r.accessibility = Val(runArgs).accessibility
            /\ r.fairness.alpha = Val(assistant).alpha
            /\ r.fairness.beta = Val(assistant).beta

\* C26 witness: a URL run without axe results whose heuristic dark-pattern
\* score was replaced by a different one of the language model
C26_Witness ==
    /\ runResult # None
    /\ Val(runArgs).mode = "url"
    /\ Val(runResult).accessibility = None
    /\ Val(runResult).fairness.accessibility_score = None
    /\ Val(runResult).llm_analysis # None
    /\ Val(runResult).dark_patterns # Val(runArgs).dark_patterns
    /\ Val(runResult).fairness.ethical_ux_score = Fl(1, 10)

\* C21: with contrast_threshold 4.5 the audit of the synthetic panel reports
\* at least one violation when the foreground value is 185, and no violation
\* and an average_contrast of at least 4.5 when the foreground value is 0.
C21_PanelTests ==
    (/\ panReport # None
     /\ Val(panAuditor).contrast_threshold = DefaultContrastThreshold) =>
        /\ Val(panel).foreground = 185 =>
             Len(Val(panReport).violations) >= 1
        /\ Val(panel).foreground = 0 =>
             /\ Val(panReport).violations = <<>>
             /\ Val(panReport).average_contrast >= DefaultContrastThreshold

\* C22: ContrastReport.to_dict returns a mapping of average_contrast and of
\* one entry per violation, in the order of the list; every entry has the
\* key contrast_ratio, has the key bbox, with x, y, width and height taken
\* from the violation's tuple, exactly when the violation has a bbox, and
\* has the key description exactly when the violation has a non-empty
\* description.
C22_ToDictShape ==
    dictOut # None =>
        LET r == Val(dictArg)
            d == Val(dictOut)
        IN  /\ DOMAIN d = {"average_contrast", "violations"}
            /\ d.average_contrast = r.average_contrast
            /\ Len(d.violations) = Len(r.violations)
            /\ \A i \in 1 .. Len(r.violations) :
                 LET v == r.violations[i]
                     e == d.violations[i]
                 IN  /\ DOMAIN e \subseteq {"contrast_ratio", "bbox", "description"}
                     /\ "contrast_ratio" \in DOMAIN e
                     /\ e["contrast_ratio"] = v.contrast_ratio
                     /\ ("bbox" \in DOMAIN e) <=> (v.bbox # None)
                     /\ v.bbox # None =>
                          e["bbox"] = [x |-> Val(v.bbox)[1], y |-> Val(v.bbox)[2],
                                       width |-> Val(v.bbox)[3],
                                       height |-> Val(v.bbox)[4]]
                     /\ ("description" \in DOMAIN e)
                          <=> (v.description # None /\ Val(v.description) # "")
                     /\ "description" \in DOMAIN e =>
                          e["description"] = Val(v.description)

\* C22 witness: a report of two violations was serialized, the first with a
\* box at the image's corner and an empty description, the second without
\* box and ratio and with a description
C22_Witness ==
    /\ dictOut # None
    /\ Len(Val(dictArg).violations) = 2
    /\ Val(dictArg).violations[1] =
         [bbox |-> Some(<<0, 0, 2, 2>>), contrast_ratio |-> Some(Fl(3, 1)),
          description |-> Some("")]
    /\ Val(dictArg).violations[2].bbox = None
    /\ Val(dictArg).violations[2].contrast_ratio = None
    /\ DOMAIN Val(dictOut).violations[1] = {"contrast_ratio", "bbox"}
    /\ DOMAIN Val(dictOut).violations[2] = {"contrast_ratio", "description"}

\* C27: when the payload of the language model lists no issues,
\* _llm_to_contrast_report returns the heuristic report it was given as
\* fallback, with the same average_contrast and the same violations.
C27_NoIssuesReturnsFallback ==
    (llmOut # None /\ Val(llmArgs).payload.issues = <<>>) =>
        /\ Val(llmOut).average_contrast = Val(llmArgs).fallback.average_contrast
        /\ Val(llmOut).violations = Val(llmArgs).fallback.violations

\* C29: in collect, once the driver has been created it is quit exactly
\* once on every path, normal completion or an exception during the page
\* load, the screenshot capture or the axe run, and artifacts are returned
\* only after the driver has been quit.
C29_DriverQuitOnce ==
    /\ [](/\ selPc \in {"try", "loaded", "text", "shot", "finally"} =>
               selDriver = "open" /\ selQuits = selCreated - 1
          /\ selPc \in {"idle", "returned", "raised"} =>
               selDriver # "open" /\ selQuits = selCreated
          /\ selArtifacts # None => selDriver = "quit" /\ selPc = "returned")
    /\ [][/\ selQuits' \in {selQuits, selQuits + 1}
          /\ selQuits' = selQuits + 1 => selDriver = "open" /\ selDriver' = "quit"]_vars
    /\ (selDriver = "open") ~> (selDriver = "quit")

\* C29 witness: the second call raised inside `try` (for instance in the
\* screenshot capture) and left with its driver quit
C29_Witness ==
    /\ selPc = "raised"
    /\ selPending = "Exception"
    /\ selDriver = "quit"
    /\ selCreated = 2 /\ selQuits = 2

\* C28: after any sequence of add_audit and delete_audits calls the entries
\* of the audit history have pairwise distinct ids, so that get_audit_by_id
\* finds each entry by its id.
C28_DistinctIds ==
    \A i \in 1 .. Len(audit_history) :
        /\ \A j \in 1 .. Len(audit_history) :
              i # j => audit_history[i].id # audit_history[j].id
        /\ GetAuditById(audit_history[i].id) = Some(audit_history[i])

\* C30: every deletion of the history page, by the button of one audit, by
\* "Delete All Audits" or by "Delete Filtered Audits", is the second of two
\* clicks: since the last deletion by that button the button was clicked
\* once before for confirmation.
C30_DeletionConfirmed ==
    lastDeletion # None => Val(lastDeletion).armed

====
